---- MODULE Spec2Model ----
(***************************************************************************)
(* A model of the CV page of src/App.tsx: the edition / version resolver   *)
(* (path parsing, data load with edition fallback, version stamp, version  *)
(* status and toast) as a state machine over the React state of App.       *)
(*                                                                         *)
(* JavaScript strings are sequences of UTF-16 code units (naturals).       *)
(* A JavaScript null or undefined string is NULL, a one-element sequence   *)
(* holding -1, which is no code unit.                                      *)
(*                                                                         *)
(* JavaScript numbers that can leave the signed 32-bit range are pairs     *)
(* <<hi, lo>> standing for hi * 2^16 + lo with lo in 0..2^16-1 and hi any  *)
(* integer: every integer of the hash computation is exactly such a pair.  *)
(***************************************************************************)
EXTENDS Integers, Sequences, FiniteSets, TLC

VARIABLES
    \* ---- the page (App component state, src/App.tsx:43-52) ----
    path,             \* window.location.pathname
    edition,          \* useState(initialEdition)
    versionHash,      \* useState(null)
    versionStatus,    \* useState('unknown')
    cvData,           \* useState(null): NoData or <<object identity, content>>
    error,            \* useState(null): NoError or the message
    showVersionToast, \* useState(false)
    toastTimer,       \* TRUE while the 6000 ms timer of the toast effect is pending
    loads,            \* the invocations of load(): a sequence of records
    deps,             \* per effect, the dependency values of its last run
    fetches,          \* the URLs fetch() was called with, in call order
    \* ---- one run of computeVersionHash (src/App.tsx:67-76) ----
    hPc, hData, hJson, hI, hHash, hStamp,
    \* ---- one evaluation of the path parsing (src/App.tsx:37-41) ----
    pPc, pPath, pEdition, pVersion,
    \* ---- the PDF export (handleDownloadPdf, src/App.tsx:160-355) ----
    isDownloading,    \* useState(false)
    img,              \* the #profile-photo element: "loading", "loaded", "broken"
    fallbackTried,    \* img.dataset.fallbackTried is set
    imgHandler,       \* the invocation whose resolve img.onload / img.onerror hold, or 0
    inv,              \* the invocations of handleDownloadPdf: a sequence of records
    live,             \* the #cv-content subtree of the page
    clones,           \* the invocations whose #cv-pdf-clone is attached to the body
    tempStyles,       \* the style#temp-pdf-styles elements attached to the head
    saveCalls,        \* the number of calls of doc.save
    alerts,           \* the number of calls of alert
    \* ---- the share box (src/App.tsx:50, 53-55, 109-124) ----
    isShareBoxVisible, \* useState(false)
    sharePending,     \* the calls of handleShareButtonClick at their await
    qrCodeInstance,   \* qrCodeInstanceRef.current holds a QRCode
    previousQrUrl,    \* previousQrUrlRef.current
    mounted           \* React has the component tree on the page

pageVars == <<path, edition, versionHash, versionStatus, cvData, error,
              showVersionToast, toastTimer, loads, deps, fetches>>
hashVars == <<hPc, hData, hJson, hI, hHash, hStamp>>
parseVars == <<pPc, pPath, pEdition, pVersion>>
exportVars == <<isDownloading, img, fallbackTried, imgHandler, inv, live, clones,
                tempStyles, saveCalls, alerts>>
shareVars == <<isShareBoxVisible, sharePending, qrCodeInstance, previousQrUrl,
               mounted>>
vars == <<pageVars, hashVars, parseVars, exportVars, shareVars>>

NULL == <<-1>>

\* cvData before a document is stored, and error before a load fails
NoData == <<0, NULL>>
NoError == "null"

(***************************************************************************)
(* Bounds of the model.                                                    *)
(***************************************************************************)
\* longest data string handed to computeVersionHash in SpecHash
MaxDataLen == 3
\* grid points per 16-bit half of the hash values SpecStamp starts from
StampGrid == 7
\* longest edition segment enumerated over EditionChars in SpecPath
MaxEditionLen == 3
\* longest version segment of the paths of SpecPath
MaxSegmentLen == 11
\* the clicks on the download button in one run
MaxClicks == 2
\* the bitmaps handed to the pagination are up to MaxSheets page heights high
MaxSheets == 3

(***************************************************************************)
(* Numbers: 16-bit halves.                                                 *)
(***************************************************************************)
Half == 2^16

\* the pair of a natural below 2^31
Num(n) == <<n \div Half, n % Half>>

\* a half in -2^15 .. 2^15-1 from its unsigned 16 bits
Signed16(h) == IF h >= (Half \div 2) THEN h - Half ELSE h

\* F applied to the value of v. TLC evaluates an operator's argument again at
\* every use inside an invariant; a bound variable holds a value, so chains of
\* arithmetic are evaluated once per link.
Bind(v, F(_)) == CHOOSE r \in {F(x) : x \in {v}} : TRUE

\* bitwise exclusive-or of two naturals below 2^16, bit k upwards
RECURSIVE XorBits(_, _, _)
XorBits(a, b, k) ==
    IF k = 16 THEN 0
    ELSE ((((a \div (2^k)) % 2) + ((b \div (2^k)) % 2)) % 2) * (2^k)
         + XorBits(a, b, k + 1)

BitXor(a, b) == Bind(a, LAMBDA x : Bind(b, LAMBDA y : XorBits(x, y, 0)))

\* ToInt32 of an integer-valued number (ECMAScript ToInt32)
ToInt32(x) == <<Signed16(x[1] % Half), x[2]>>

\* mutant of ToUint32: the final >>> 0 left out
ToUint32Omitted(x) == x

\* x >>> 0: ToUint32
ToUint32(x) == <<x[1] % Half, x[2]>>

\* x << 5 on an int32: the low 32 bits of x * 32, read as signed
ShiftLeft5(x) ==
    LET lo == x[2] * 32
        hi == ((x[1] % Half) * 32) + (lo \div Half)
    IN  <<Signed16(hi % Half), lo % Half>>

\* a + b on numbers: exact, no wrap (the operands are far below 2^53)
NumAdd(a, b) ==
    LET lo == a[2] + b[2]
    IN  <<a[1] + b[1] + (lo \div Half), lo % Half>>

\* a ^ b: both operands through ToInt32, the result an int32
NumXor(a, b) ==
    LET x == ToInt32(a)
        y == ToInt32(b)
    IN  <<Signed16(BitXor(x[1] % Half, y[1] % Half)), BitXor(x[2], y[2])>>

(***************************************************************************)
(* JavaScript numbers that are not integers (the pagination of the export).*)
(* A natural number of up to 120 bits is a sequence of 8 limbs of 15 bits, *)
(* least significant first; a positive double is [m, s] with the value     *)
(* m / 2^s and m below 2^53 + 1, rounded as IEEE 754 binary64 rounds (to   *)
(* nearest, ties to even).  The exponent range is never left here.         *)
(***************************************************************************)
Limb == 2^15
LimbIndex == 1..8

\* the limbs of a natural below 2^31
BigOf(n) ==
    Bind(n, LAMBDA v : <<v % Limb, (v \div Limb) % Limb, v \div (Limb * Limb),
                         0, 0, 0, 0, 0>>)

\* limb j of a, 0 outside the limbs
LimbAt(a, j) == IF j >= 1 /\ j <= 8 THEN a[j] ELSE 0

\* the natural of limbs that hold less than 2^31
BigToInt(a) == a[1] + (a[2] * Limb) + (a[3] * Limb * Limb)

\* limbs from eight digits of any size below 2^30: the carries propagated
\* upwards
Carry(d) ==
    LET t1 == d[1]
        t2 == d[2] + (t1 \div Limb)
        t3 == d[3] + (t2 \div Limb)
        t4 == d[4] + (t3 \div Limb)
        t5 == d[5] + (t4 \div Limb)
        t6 == d[6] + (t5 \div Limb)
        t7 == d[7] + (t6 \div Limb)
        t8 == d[8] + (t7 \div Limb)
    IN  <<t1 % Limb, t2 % Limb, t3 % Limb, t4 % Limb,
          t5 % Limb, t6 % Limb, t7 % Limb, t8 % Limb>>

BigMulSmall(a, c) ==
    Bind(a, LAMBDA v :
        Carry(<<v[1] * c, v[2] * c, v[3] * c, v[4] * c,
                v[5] * c, v[6] * c, v[7] * c, v[8] * c>>))

BigAdd(a, b) ==
    Bind(<<a, b>>, LAMBDA v :
        Carry(<<v[1][1] + v[2][1], v[1][2] + v[2][2], v[1][3] + v[2][3],
                v[1][4] + v[2][4], v[1][5] + v[2][5], v[1][6] + v[2][6],
                v[1][7] + v[2][7], v[1][8] + v[2][8]>>))

\* limbs from eight digits above -2^15: the borrows propagated upwards
Borrow(d) ==
    LET t1 == d[1]
        t2 == d[2] - (IF t1 < 0 THEN 1 ELSE 0)
        t3 == d[3] - (IF t2 < 0 THEN 1 ELSE 0)
        t4 == d[4] - (IF t3 < 0 THEN 1 ELSE 0)
        t5 == d[5] - (IF t4 < 0 THEN 1 ELSE 0)
        t6 == d[6] - (IF t5 < 0 THEN 1 ELSE 0)
        t7 == d[7] - (IF t6 < 0 THEN 1 ELSE 0)
        t8 == d[8] - (IF t7 < 0 THEN 1 ELSE 0)
    IN  <<(t1 + Limb) % Limb, (t2 + Limb) % Limb, (t3 + Limb) % Limb,
          (t4 + Limb) % Limb, (t5 + Limb) % Limb, (t6 + Limb) % Limb,
          (t7 + Limb) % Limb, (t8 + Limb) % Limb>>

\* a - b for a >= b
BigSub(a, b) ==
    Bind(<<a, b>>, LAMBDA v :
        Borrow(<<v[1][1] - v[2][1], v[1][2] - v[2][2], v[1][3] - v[2][3],
                 v[1][4] - v[2][4], v[1][5] - v[2][5], v[1][6] - v[2][6],
                 v[1][7] - v[2][7], v[1][8] - v[2][8]>>))

\* -1, 0, 1 as a is below, equal to, above b: limbs compared from i down
RECURSIVE BigCmpFrom(_, _, _)
BigCmpFrom(a, b, i) ==
    IF i = 0 THEN 0
    ELSE IF a[i] > b[i] THEN 1
    ELSE IF a[i] < b[i] THEN -1
    ELSE BigCmpFrom(a, b, i - 1)

BigCmp(a, b) == Bind(<<a, b>>, LAMBDA v : BigCmpFrom(v[1], v[2], 8))
BigIsZero(a) == \A i \in LimbIndex : a[i] = 0

\* the limbs of a divided by a natural d below 2^15 (the remainder dropped):
\* the limbs from 8 down to 1, each with the remainder of the limbs above
BigDivSmall(a, d) ==
    Bind(a, LAMBDA v :
        LET c8 == v[8]
            c7 == ((c8 % d) * Limb) + v[7]
            c6 == ((c7 % d) * Limb) + v[6]
            c5 == ((c6 % d) * Limb) + v[5]
            c4 == ((c5 % d) * Limb) + v[4]
            c3 == ((c4 % d) * Limb) + v[3]
            c2 == ((c3 % d) * Limb) + v[2]
            c1 == ((c2 % d) * Limb) + v[1]
        IN  <<c1 \div d, c2 \div d, c3 \div d, c4 \div d,
              c5 \div d, c6 \div d, c7 \div d, c8 \div d>>)

\* the number of bits of a natural below 2^15, and of a big natural
RECURSIVE BitLenSmall(_)
BitLenSmall(n) == IF n = 0 THEN 0 ELSE 1 + BitLenSmall(n \div 2)

RECURSIVE TopLimb(_, _)
TopLimb(a, i) == IF i = 0 \/ a[i] # 0 THEN i ELSE TopLimb(a, i - 1)

BigBitLen(a) ==
    Bind(a, LAMBDA v :
        Bind(TopLimb(v, 8),
             LAMBDA i : IF i = 0 THEN 0 ELSE (15 * (i - 1)) + BitLenSmall(v[i])))

\* a * 2^k and floor(a / 2^k)
BigShl(a, k) ==
    Bind(<<BigMulSmall(a, 2^(k % 15)), k \div 15>>,
         LAMBDA t : <<LimbAt(t[1], 1 - t[2]), LimbAt(t[1], 2 - t[2]),
                      LimbAt(t[1], 3 - t[2]), LimbAt(t[1], 4 - t[2]),
                      LimbAt(t[1], 5 - t[2]), LimbAt(t[1], 6 - t[2]),
                      LimbAt(t[1], 7 - t[2]), LimbAt(t[1], 8 - t[2])>>)

BigShr(a, k) ==
    Bind(<<a, k \div 15>>,
         LAMBDA t :
            BigDivSmall(<<LimbAt(t[1], 1 + t[2]), LimbAt(t[1], 2 + t[2]),
                          LimbAt(t[1], 3 + t[2]), LimbAt(t[1], 4 + t[2]),
                          LimbAt(t[1], 5 + t[2]), LimbAt(t[1], 6 + t[2]),
                          LimbAt(t[1], 7 + t[2]), LimbAt(t[1], 8 + t[2])>>,
                        2^(k % 15)))

\* the greatest c below 2^15 with c * d <= r, for r below d * 2^15: the bits
\* of c from bit k down
RECURSIVE QuotientDigit(_, _, _, _)
QuotientDigit(r, d, c, k) ==
    IF k < 0 THEN c
    ELSE IF BigCmp(BigMulSmall(d, c + 2^k), r) <= 0
         THEN QuotientDigit(r, d, c + 2^k, k - 1)
         ELSE QuotientDigit(r, d, c, k - 1)

\* one step of the long division by d: the next limb of the dividend is
\* brought down to the remainder, the digit of the quotient is found and put
\* below the digits found before
DivStep(st, limb, d) ==
    Bind(BigAdd(BigShl(st.r, 15), BigOf(limb)),
         LAMBDA t :
            Bind(IF BigCmp(t, d) < 0 THEN 0 ELSE QuotientDigit(t, d, 0, 14),
                 LAMBDA c : [q |-> <<c>> \o st.q,
                             r |-> BigSub(t, BigMulSmall(d, c))]))

\* the long division of n by d from limb i of n downwards, st holding the
\* digits of the quotient and the remainder of the limbs above
RECURSIVE DivFold(_, _, _, _)
DivFold(n, d, i, st) ==
    IF i = 0 THEN st
    ELSE Bind(DivStep(st, n[i], d), LAMBDA next : DivFold(n, d, i - 1, next))

\* n divided by d: [q |-> the limbs of the quotient, r |-> the remainder]
BigDiv(n, d) ==
    Bind(<<n, d>>, LAMBDA v : DivFold(v[1], v[2], 8, [q |-> <<>>, r |-> BigOf(0)]))

\* the double nearest to n / 2^s, or to a value just above it when sticky
Round53(n, s, sticky) ==
    Bind(<<n, BigBitLen(n) - 53>>,
         LAMBDA nt :
            IF nt[2] <= 0 THEN [m |-> nt[1], s |-> s]
            ELSE Bind(BigShr(nt[1], nt[2]),
                      LAMBDA q :
                         Bind(BigCmp(BigSub(nt[1], BigShl(q, nt[2])),
                                     BigShl(BigOf(1), nt[2] - 1)),
                              LAMBDA c :
                                 [m |-> IF c > 0 \/ (c = 0 /\ (sticky \/ q[1] % 2 = 1))
                                        THEN BigAdd(q, BigOf(1)) ELSE q,
                                  s |-> s - nt[2]])))

\* the double of a natural below 2^31
NumOfInt(n) == [m |-> BigOf(n), s |-> 0]

\* x / y
NumDiv(x, y) ==
    Bind(<<x, y>>, LAMBDA v :
        Bind(56 + BigBitLen(v[2].m) - BigBitLen(v[1].m),
             LAMBDA g : Bind(BigDiv(BigShl(v[1].m, g), v[2].m),
                             LAMBDA qr : Round53(qr.q, g + v[1].s - v[2].s,
                                                 ~BigIsZero(qr.r)))))

\* c * x for a natural c below 2^15
NumMulInt(c, x) == Bind(x, LAMBDA v : Round53(BigMulSmall(v.m, c), v.s, FALSE))

\* Math.floor(x) and Math.ceil(x), naturals below 2^31
NumFloor(x) == Bind(x, LAMBDA v : Bind(BigShr(v.m, v.s), LAMBDA f : BigToInt(f)))
NumCeil(x) ==
    Bind(x, LAMBDA v :
        Bind(BigShr(v.m, v.s),
             LAMBDA f : BigToInt(f)
                        + (IF BigCmp(BigShl(f, v.s), v.m) = 0 THEN 0 ELSE 1)))

\* -1, 0, 1 as x is below, equal to, above y
NumCmp(x, y) ==
    Bind(<<x, y>>, LAMBDA v :
        IF v[1].s >= v[2].s THEN BigCmp(v[1].m, BigShl(v[2].m, v[1].s - v[2].s))
        ELSE BigCmp(BigShl(v[1].m, v[2].s - v[1].s), v[2].m))

(***************************************************************************)
(* Strings.                                                                *)
(***************************************************************************)
\* the lowercase hexadecimal digit of d in 0..15, and the digit of d in 0..35
\* as Number.prototype.toString writes it (0-9 then a-z)
DigitChar(d) == IF d < 10 THEN 48 + d ELSE 87 + d

IsHighSurrogate(c) == c >= 55296 /\ c <= 56319
IsLowSurrogate(c) == c >= 56320 /\ c <= 57343

\* \uXXXX with four lowercase hexadecimal digits
UnicodeEscape(c) ==
    <<92, 117, DigitChar(c \div 4096), DigitChar((c \div 256) % 16),
      DigitChar((c \div 16) % 16), DigitChar(c % 16)>>

\* the characters of s from index i (1-based) on, quoted as JSON.stringify
\* quotes a string value (ECMAScript QuoteJSONString, well-formed stringify)
RECURSIVE QuoteFrom(_, _)
QuoteFrom(s, i) ==
    IF i > Len(s) THEN <<>>
    ELSE LET c == s[i] IN
         IF c = 8 THEN <<92, 98>> \o QuoteFrom(s, i + 1)
         ELSE IF c = 9 THEN <<92, 116>> \o QuoteFrom(s, i + 1)
         ELSE IF c = 10 THEN <<92, 110>> \o QuoteFrom(s, i + 1)
         ELSE IF c = 12 THEN <<92, 102>> \o QuoteFrom(s, i + 1)
         ELSE IF c = 13 THEN <<92, 114>> \o QuoteFrom(s, i + 1)
         ELSE IF c = 34 THEN <<92, 34>> \o QuoteFrom(s, i + 1)
         ELSE IF c = 92 THEN <<92, 92>> \o QuoteFrom(s, i + 1)
         ELSE IF c < 32 THEN UnicodeEscape(c) \o QuoteFrom(s, i + 1)
         ELSE IF IsHighSurrogate(c) /\ i < Len(s) /\ IsLowSurrogate(s[i + 1])
              THEN <<c, s[i + 1]>> \o QuoteFrom(s, i + 2)
         ELSE IF IsHighSurrogate(c) \/ IsLowSurrogate(c)
              THEN UnicodeEscape(c) \o QuoteFrom(s, i + 1)
         ELSE <<c>> \o QuoteFrom(s, i + 1)

\* JSON.stringify(data) for a document that is a JSON string value
JSONstringify(data) == <<34>> \o QuoteFrom(data, 1) \o <<34>>

\* String.prototype.toUpperCase on the ASCII letters
ToUpperCase(s) ==
    [i \in 1..Len(s) |-> IF s[i] >= 97 /\ s[i] <= 122 THEN s[i] - 32 ELSE s[i]]

\* s.padStart(n, '0')
RECURSIVE PadStart0(_, _)
PadStart0(s, n) == IF Len(s) >= n THEN s ELSE PadStart0(<<48>> \o s, n)

\* mutant of SliceLast: slice(0, n), the first n characters
SliceFirst(s, n) == IF Len(s) <= n THEN s ELSE SubSeq(s, 1, n)

\* s.slice(-n)
SliceLast(s, n) == IF Len(s) <= n THEN s ELSE SubSeq(s, Len(s) - n + 1, Len(s))

(***************************************************************************)
(* computeVersionHash, src/App.tsx:67-76.                                  *)
(***************************************************************************)
HashSeed == 5381
Radix == 36
StampLen == 6

\* line 71: hash = ((hash << 5) + hash) ^ json.charCodeAt(i)
HashStepValue(hash, code) ==
    NumXor(NumAdd(ShiftLeft5(hash), hash), <<0, code>>)

\* the quotient and the remainder of an unsigned 32-bit pair by Radix
DivRadix(x) ==
    LET t == ((x[1] % Radix) * Half) + x[2]
    IN  [q |-> <<x[1] \div Radix, t \div Radix>>, r |-> t % Radix]

\* the digits of a positive number in base Radix, most significant first
RECURSIVE RadixDigits(_)
RadixDigits(x) ==
    IF x = <<0, 0>> THEN <<>>
    ELSE Append(RadixDigits(DivRadix(x).q), DigitChar(DivRadix(x).r))

\* line 74: hash.toString(36)
NumberToString(x) == IF x = <<0, 0>> THEN <<48>> ELSE RadixDigits(x)

\* lines 74-75: the stamp of the unsigned hash
StampOf(hash) ==
    SliceLast(PadStart0(ToUpperCase(NumberToString(hash)), StampLen), StampLen)

\* lines 69-72: the accumulator after the characters of json
RECURSIVE HashLoop(_, _, _)
HashLoop(hash, json, i) ==
    IF i >= Len(json) THEN hash
    ELSE Bind(HashStepValue(hash, json[i + 1]),
              LAMBDA h : HashLoop(h, json, i + 1))

computeVersionHash(data) ==
    StampOf(ToUint32(HashLoop(Num(HashSeed), JSONstringify(data), 0)))

(***************************************************************************)
(* One run of computeVersionHash, statement by statement.                  *)
(***************************************************************************)
\* the characters documents are drawn from: " \ newline a { and U+FFFF
DataChars == {34, 92, 10, 97, 123, 65535}

RECURSIVE StringsUpTo(_, _)
StringsUpTo(chars, n) ==
    IF n = 0 THEN {<<>>}
    ELSE LET shorter == StringsUpTo(chars, n - 1)
         IN  shorter \cup {Append(s, c) : s \in shorter, c \in chars}

DataInputs == StringsUpTo(DataChars, MaxDataLen)

\* lines 68-69
HashStart ==
    /\ hPc = "start"
    /\ hJson' = JSONstringify(hData)
    /\ hHash' = Num(HashSeed)
    /\ hI' = 0
    /\ hPc' = "loop"
    /\ UNCHANGED <<hData, hStamp, pageVars, parseVars, exportVars,
                   shareVars>>

\* lines 70-72, one iteration
HashStep ==
    /\ hPc = "loop"
    /\ hI < Len(hJson)
    /\ hHash' = HashStepValue(hHash, hJson[hI + 1])
    /\ hI' = hI + 1
    /\ UNCHANGED <<hPc, hData, hJson, hStamp, pageVars, parseVars, exportVars,
                   shareVars>>

\* line 73, at the loop's exit
HashUnsigned ==
    /\ hPc = "loop"
    /\ hI >= Len(hJson)
    /\ hHash' = ToUint32(hHash)
    /\ hPc' = "format"
    /\ UNCHANGED <<hData, hJson, hI, hStamp, pageVars, parseVars, exportVars,
                   shareVars>>

\* lines 74-75
HashFormat ==
    /\ hPc = "format"
    /\ hStamp' = StampOf(hHash)
    /\ hPc' = "done"
    /\ UNCHANGED <<hData, hJson, hI, hHash, pageVars, parseVars, exportVars,
                   shareVars>>

(***************************************************************************)
(* Path parsing, src/App.tsx:37-41.                                        *)
(***************************************************************************)
CharSlash == 47
CharE == 101
CharV == 118
CharPercent == 37
MinVersionLen == 4
MaxVersionLen == 10

\* the value decodeURIComponent is left with when it throws URIError
URIError == <<-2>>

\* [A-Za-z0-9]
IsAlnum(c) == (c >= 48 /\ c <= 57) \/ (c >= 65 /\ c <= 90) \/ (c >= 97 /\ c <= 122)

\* lit occurs in s at index i (1-based)
LitAt(s, i, lit) ==
    /\ i >= 1
    /\ i + Len(lit) - 1 <= Len(s)
    /\ \A j \in 1..Len(lit) : s[i + j - 1] = lit[j]

\* [^\/]+ from index i, greedy: the number of characters taken
RECURSIVE NonSlashRun(_, _)
NonSlashRun(s, i) ==
    IF i > Len(s) \/ s[i] = CharSlash THEN 0 ELSE 1 + NonSlashRun(s, i + 1)

\* [A-Za-z0-9]{..,max} from index i, greedy: the number of characters taken
RECURSIVE AlnumRun(_, _, _)
AlnumRun(s, i, max) ==
    IF max = 0 \/ i > Len(s) \/ ~IsAlnum(s[i]) THEN 0
    ELSE 1 + AlnumRun(s, i + 1, max - 1)

\* mutant of VersionTokenAt: the lower bound of the quantifier left out
VersionTokenAtNoMinimum(s, i) ==
    LET n == AlnumRun(s, i, MaxVersionLen)
    IN  IF n >= 1 THEN SubSeq(s, i, i + n - 1) ELSE NULL

\* mutant of VersionTokenAt: the token has to reach the end of the path, as
\* a pattern closed by $ would ask
VersionTokenAtAnchored(s, i) ==
    LET n == AlnumRun(s, i, MaxVersionLen)
    IN  IF n >= MinVersionLen /\ i + n > Len(s) THEN SubSeq(s, i, i + n - 1) ELSE NULL

\* ([A-Za-z0-9]{4,10}) at index i: the captured token, or NULL
VersionTokenAt(s, i) ==
    LET n == AlnumRun(s, i, MaxVersionLen)
    IN  IF n >= MinVersionLen THEN SubSeq(s, i, i + n - 1) ELSE NULL

\* m[n] of a JavaScript match array m, held as <<m[0], m[1], ...>>
Group(m, n) == m[n + 1]

\* line 38, the regular expression tried at start index p (1-based):
\* (?:^|\/)e\/([^\/]+)(?:\/(?:v\/([A-Za-z0-9]{4,10}))?)?
\* the match array (an unset group is NULL), or NULL for no match here
EditionMatchAt(s, p) ==
    LET q == IF p = 1 /\ LitAt(s, 1, <<CharE, CharSlash>>) THEN 3
             ELSE IF LitAt(s, p, <<CharSlash, CharE, CharSlash>>) THEN p + 3
             ELSE 0
        r == IF q = 0 THEN 0 ELSE NonSlashRun(s, q)
        t == IF LitAt(s, q + r, <<CharSlash, CharV, CharSlash>>)
             THEN VersionTokenAt(s, q + r + 3) ELSE NULL
        end == IF t # NULL THEN q + r + 2 + Len(t)
               ELSE IF LitAt(s, q + r, <<CharSlash>>) THEN q + r
               ELSE q + r - 1
    IN  IF r = 0 THEN NULL
        ELSE <<SubSeq(s, p, end), SubSeq(s, q, q + r - 1), t>>

\* mutant of RootVersionMatchAt: the token cut to its first MinVersionLen
\* characters, as a lazy quantifier would
RootVersionMatchAtLazy(s, p) ==
    LET q == IF p = 1 /\ LitAt(s, 1, <<CharV, CharSlash>>) THEN 3
             ELSE IF LitAt(s, p, <<CharSlash, CharV, CharSlash>>) THEN p + 3
             ELSE 0
        t == IF q = 0 THEN NULL ELSE VersionTokenAt(s, q)
    IN  IF t = NULL THEN NULL
        ELSE <<SubSeq(s, p, q + MinVersionLen - 1), SubSeq(t, 1, MinVersionLen)>>

\* line 39, the regular expression tried at start index p:
\* (?:^|\/)v\/([A-Za-z0-9]{4,10})
RootVersionMatchAt(s, p) ==
    LET q == IF p = 1 /\ LitAt(s, 1, <<CharV, CharSlash>>) THEN 3
             ELSE IF LitAt(s, p, <<CharSlash, CharV, CharSlash>>) THEN p + 3
             ELSE 0
        t == IF q = 0 THEN NULL ELSE VersionTokenAt(s, q)
    IN  IF t = NULL THEN NULL
        ELSE <<SubSeq(s, p, q + Len(t) - 1), t>>

\* String.prototype.match without the g flag: the match at the least start index
RECURSIVE EditionMatchFrom(_, _)
EditionMatchFrom(s, p) ==
    IF p > Len(s) THEN NULL
    ELSE IF EditionMatchAt(s, p) # NULL THEN EditionMatchAt(s, p)
    ELSE EditionMatchFrom(s, p + 1)

RECURSIVE RootVersionMatchFrom(_, _)
RootVersionMatchFrom(s, p) ==
    IF p > Len(s) THEN NULL
    ELSE IF RootVersionMatchAt(s, p) # NULL THEN RootVersionMatchAt(s, p)
    ELSE RootVersionMatchFrom(s, p + 1)

\* line 38
editionMatch(s) == EditionMatchFrom(s, 1)

\* line 39
rootVersionMatch(s) == IF editionMatch(s) = NULL THEN RootVersionMatchFrom(s, 1) ELSE NULL

\* the value of a hexadecimal digit, -1 for another character
HexValue(c) ==
    IF c >= 48 /\ c <= 57 THEN c - 48
    ELSE IF c >= 65 /\ c <= 70 THEN c - 55
    ELSE IF c >= 97 /\ c <= 102 THEN c - 87
    ELSE -1

\* the octet of the escape %XX at index k, -1 when there is no escape there
OctetAt(s, k) ==
    IF k + 2 > Len(s) \/ s[k] # CharPercent THEN -1
    ELSE IF HexValue(s[k + 1]) < 0 \/ HexValue(s[k + 2]) < 0 THEN -1
    ELSE (16 * HexValue(s[k + 1])) + HexValue(s[k + 2])

\* the number of octets of the UTF-8 sequence led by octet b (0: not a lead)
Utf8Length(b) ==
    IF b < 128 THEN 1
    ELSE IF b >= 194 /\ b <= 223 THEN 2
    ELSE IF b >= 224 /\ b <= 239 THEN 3
    ELSE IF b >= 240 /\ b <= 244 THEN 4
    ELSE 0

\* the code point of the n escapes at index k, -1 when they are no valid UTF-8
CodePointAt(s, k, n) ==
    LET b1 == OctetAt(s, k)
        b2 == OctetAt(s, k + 3)
        b3 == OctetAt(s, k + 6)
        b4 == OctetAt(s, k + 9)
        Cont(b) == b >= 128 /\ b <= 191
        v == IF n = 2 THEN ((b1 - 192) * 64) + (b2 - 128)
             ELSE IF n = 3 THEN ((b1 - 224) * 4096) + ((b2 - 128) * 64) + (b3 - 128)
             ELSE ((b1 - 240) * 262144) + ((b2 - 128) * 4096)
                  + ((b3 - 128) * 64) + (b4 - 128)
    IN  IF ~Cont(b2) \/ (n >= 3 /\ ~Cont(b3)) \/ (n = 4 /\ ~Cont(b4)) THEN -1
        ELSE IF n = 3 /\ (v < 2048 \/ (v >= 55296 /\ v <= 57343)) THEN -1
        ELSE IF n = 4 /\ (v < 65536 \/ v > 1114111) THEN -1
        ELSE v

\* the UTF-16 code units of a code point
Utf16(v) ==
    IF v < 65536 THEN <<v>>
    ELSE <<55296 + ((v - 65536) \div 1024), 56320 + ((v - 65536) % 1024)>>

\* head followed by rest, unless the rest threw
Then(head, rest) == IF rest = URIError THEN URIError ELSE head \o rest

\* decodeURIComponent(s) from index k on (ECMAScript Decode, no reserved set)
RECURSIVE DecodeFrom(_, _)
DecodeFrom(s, k) ==
    IF k > Len(s) THEN <<>>
    ELSE IF s[k] # CharPercent THEN Then(<<s[k]>>, DecodeFrom(s, k + 1))
    ELSE LET b == OctetAt(s, k)
             n == Utf8Length(b)
         IN  IF b < 0 \/ n = 0 THEN URIError
             ELSE IF n = 1 THEN Then(<<b>>, DecodeFrom(s, k + 3))
             ELSE IF k + (3 * n) - 1 > Len(s) THEN URIError
             ELSE IF CodePointAt(s, k, n) < 0 THEN URIError
             ELSE Then(Utf16(CodePointAt(s, k, n)), DecodeFrom(s, k + (3 * n)))

decodeURIComponent(s) == DecodeFrom(s, 1)

\* line 40: null, the decoded edition, or URIError when the decoding throws
initialEdition(s) ==
    IF editionMatch(s) # NULL THEN decodeURIComponent(Group(editionMatch(s), 1)) ELSE NULL

\* line 41
providedVersionFromUrl(s) ==
    IF editionMatch(s) # NULL THEN Group(editionMatch(s), 2)
    ELSE IF rootVersionMatch(s) # NULL THEN Group(rootVersionMatch(s), 1)
    ELSE NULL

(***************************************************************************)
(* One evaluation of lines 37-41 (they run at every render of App).        *)
(***************************************************************************)
\* lines 38-41; line 40 throws when the edition segment does not decode, and
\* line 41 is then not reached
ParsePath ==
    /\ pPc = "start"
    /\ pEdition' = initialEdition(pPath)
    /\ IF initialEdition(pPath) = URIError
       THEN pVersion' = NULL /\ pPc' = "threw"
       ELSE pVersion' = providedVersionFromUrl(pPath) /\ pPc' = "done"
    /\ UNCHANGED <<pPath, pageVars, hashVars, exportVars,
                   shareVars>>

(***************************************************************************)
(* The page: App's state, its effects, the load and the share box,         *)
(* src/App.tsx:43-124, 152-158, 367-381 and 588-589.  A render reads the   *)
(* state and the path as they are; Commit is one render with the effects   *)
(* it runs, in the order of the source.                                    *)
(***************************************************************************)
\* a JavaScript value that is truthy: neither null nor the empty string
Truthy(x) == x # NULL /\ x # <<>>

(***************************************************************************)
(* The share URL, src/App.tsx:57-64, computed at every render.             *)
(***************************************************************************)
\* the characters encodeURIComponent leaves as they are: A-Z a-z 0-9 - _ . ! ~ * ' ( )
IsUnescaped(c) == IsAlnum(c) \/ c \in {45, 95, 46, 33, 126, 42, 39, 40, 41}

\* an upper-case hexadecimal digit
HexDigit(d) == IF d < 10 THEN 48 + d ELSE 55 + d

\* %XX of one octet
EscapeOctet(b) == <<CharPercent, HexDigit(b \div 16), HexDigit(b % 16)>>

\* the UTF-8 octets of a code point, each escaped
EscapeCodePoint(v) ==
    IF v < 128 THEN EscapeOctet(v)
    ELSE IF v < 2048 THEN EscapeOctet(192 + (v \div 64)) \o EscapeOctet(128 + (v % 64))
    ELSE IF v < 65536 THEN
        EscapeOctet(224 + (v \div 4096)) \o EscapeOctet(128 + ((v \div 64) % 64))
            \o EscapeOctet(128 + (v % 64))
    ELSE EscapeOctet(240 + (v \div 262144)) \o EscapeOctet(128 + ((v \div 4096) % 64))
            \o EscapeOctet(128 + ((v \div 64) % 64)) \o EscapeOctet(128 + (v % 64))

\* encodeURIComponent(s) from index k on (ECMAScript Encode); URIError for a
\* lone surrogate
RECURSIVE EncodeFrom(_, _)
EncodeFrom(s, k) ==
    IF k > Len(s) THEN <<>>
    ELSE IF IsUnescaped(s[k]) THEN Then(<<s[k]>>, EncodeFrom(s, k + 1))
    ELSE IF IsLowSurrogate(s[k]) THEN URIError
    ELSE IF ~IsHighSurrogate(s[k]) THEN Then(EscapeCodePoint(s[k]), EncodeFrom(s, k + 1))
    ELSE IF k + 1 > Len(s) \/ ~IsLowSurrogate(s[k + 1]) THEN URIError
    ELSE Then(EscapeCodePoint(65536 + ((s[k] - 55296) * 1024) + (s[k + 1] - 56320)),
              EncodeFrom(s, k + 2))

encodeURIComponent(s) == EncodeFrom(s, 1)

\* line 58: 'https://cv.hapangama.com'
configuredBaseOrigin ==
    <<104, 116, 116, 112, 115, 58, 47, 47, 99, 118, 46, 104, 97, 112, 97, 110,
      103, 97, 109, 97, 46, 99, 111, 109>>

\* line 59: window.location.origin, here the production host or a mirror
\* 'http://localhost'
RuntimeOrigins ==
    {configuredBaseOrigin,
     <<104, 116, 116, 112, 58, 47, 47, 108, 111, 99, 97, 108, 104, 111, 115, 116>>}

\* mutant of baseOrigin: the runtime origin preferred
baseOriginRuntimeFirst(runtimeOrigin) ==
    IF Truthy(runtimeOrigin) THEN runtimeOrigin ELSE configuredBaseOrigin

\* line 61: configuredBaseOrigin || runtimeOrigin
baseOrigin(runtimeOrigin) ==
    IF Truthy(configuredBaseOrigin) THEN configuredBaseOrigin ELSE runtimeOrigin

\* lines 62-64, for the edition ed and the stamp vh of a render
shareUrlOf(runtimeOrigin, ed, vh) ==
    IF Truthy(vh)
    THEN IF Truthy(ed)
         THEN baseOrigin(runtimeOrigin) \o <<CharSlash, CharE, CharSlash>>
                  \o encodeURIComponent(ed)
                  \o <<CharSlash, CharV, CharSlash>> \o vh
         ELSE baseOrigin(runtimeOrigin) \o <<CharSlash, CharV, CharSlash>> \o vh
    ELSE IF Truthy(ed)
         THEN baseOrigin(runtimeOrigin) \o <<CharSlash, CharE, CharSlash>>
                  \o encodeURIComponent(ed)
         ELSE baseOrigin(runtimeOrigin)

\* lines 62-64, from the edition and versionHash states of the render
shareUrl(runtimeOrigin) == shareUrlOf(runtimeOrigin, edition, versionHash)

\* '/cv-data' and '.json'
CvDataStem == <<47, 99, 118, 45, 100, 97, 116, 97>>
DotJson == <<46, 106, 115, 111, 110>>

\* line 87: '/cv-data.json'
DefaultFile == CvDataStem \o DotJson

\* line 81
fileForEdition(e) ==
    IF Truthy(e) THEN CvDataStem \o <<45>> \o e \o DotJson ELSE DefaultFile

\* mutant of RewrittenPath: the version segment dropped from the rewritten path
RewrittenPathNoVersion(pv) == <<CharSlash>>

\* line 90: `/${providedVersionFromUrl ? 'v/' + providedVersionFromUrl : ''}`
RewrittenPath(pv) ==
    <<CharSlash>> \o (IF Truthy(pv) THEN <<CharV, CharSlash>> \o pv ELSE <<>>)

\* line 101
LoadErrorMessage == "Failed to load CV data."

\* the documents the server may answer with: the default resource in two
\* versions (it may be redeployed between two fetches), an edition's in one
DefaultDocs == {<<99, 118>>, <<99, 118, 50>>}
EditionDocs == {<<97, 99>>}
Served(url) == IF url = DefaultFile THEN DefaultDocs ELSE EditionDocs

\* mutant of Rendered: the document test made before the error test
RenderedDocumentFirst ==
    IF ~mounted THEN "nothing"
    ELSE IF cvData # NoData THEN "document"
    ELSE IF error # NoError THEN "error" ELSE "loading"

\* lines 383-403: what the component returns, the error message (383-391),
\* the loading text (393-401) or the CV document (405 on); once React has
\* unmounted the tree nothing of the component is on the page
Rendered ==
    IF ~mounted THEN "nothing"
    ELSE IF error # NoError THEN "error"
    ELSE IF cvData = NoData THEN "loading" ELSE "document"

\* a state setter of useState called with the value new: React drops the
\* update of a component it has unmounted, whose state stays old
SetState(new, old) == IF mounted THEN new ELSE old

\* the dependency arrays of the four effects, as a render computes them
LoadDeps == <<edition>>
QrDeps == <<isShareBoxVisible, shareUrl(configuredBaseOrigin)>>
StatusDeps == <<versionStatus, providedVersionFromUrl(path), versionHash>>
ToastDeps == <<providedVersionFromUrl(path), versionStatus>>

\* a render would run an effect: first render, or a dependency changed
NeedsCommit ==
    \/ deps.load # LoadDeps
    \/ deps.qr # QrDeps
    \/ deps.status # StatusDeps
    \/ deps.toast # ToastDeps

\* the outcomes of a call of the QRCode constructor (line 115; part_001
\* lines 53 and 119): the code is drawn, or the constructor throws
QrOutcomes == {"drawn", "none"}

\* lines 110-112: the QR effect gets past its three returns; qrCodeRef is
\* set while the document, which holds #qr-code-container (line 607), is
\* rendered
QrEffectDraws ==
    /\ isShareBoxVisible
    /\ Rendered = "document"
    /\ previousQrUrl # shareUrl(configuredBaseOrigin)

\* mutant of StatusEffectFires: the versionStatus === 'unknown' guard left out
StatusEffectFiresAlways(pv) == Truthy(pv) /\ Truthy(versionHash)

\* mutant of StatusEffectFires: the providedVersionFromUrl test left out
StatusEffectFiresNoVersion(pv) == versionStatus = "unknown" /\ Truthy(versionHash)

\* line 369: the guard of the versionStatus effect
StatusEffectFires(pv) ==
    versionStatus = "unknown" /\ Truthy(pv) /\ Truthy(versionHash)

\* mutant of StatusResult: the comparison inverted
StatusResultInverted(pv) == IF pv # versionHash THEN "match" ELSE "mismatch"

\* line 370
StatusResult(pv) == IF pv = versionHash THEN "match" ELSE "mismatch"

\* line 376: the guard of the toast effect
ToastEffectFires(pv) == Truthy(pv) /\ versionStatus # "unknown"

\* one render and its commit: lines 79-106 (load effect), 109-124 (QR
\* effect), 368-372 (versionStatus effect), 375-381 (toast effect), run in
\* this order. qr is the outcome of the QRCode constructor of line 115 when
\* the QR effect gets to it. The constructor is called outside any try
\* block: when it throws, the exception leaves the effect, and React,
\* which App gives no error boundary, unmounts the tree: the cleanup of the
\* toast effect clears its timer and the state set by the effects of this
\* commit is dropped.
Commit(qr) ==
    /\ mounted
    /\ NeedsCommit
    /\ IF deps.qr # QrDeps /\ QrEffectDraws
       THEN \* lines 113-123
            /\ mounted' = (qr = "drawn")
            /\ qrCodeInstance' = (qrCodeInstance \/ qr = "drawn")
            /\ previousQrUrl' = IF qr = "drawn" THEN shareUrl(configuredBaseOrigin)
                                ELSE previousQrUrl
       ELSE /\ qr = "drawn"
            /\ UNCHANGED <<mounted, qrCodeInstance, previousQrUrl>>
    /\ LET pv == providedVersionFromUrl(path) IN
       /\ IF deps.load # LoadDeps
          THEN \* lines 81-83: load() runs to its first await
               /\ loads' = Append(loads, [pc |-> "fetch1", edition |-> edition,
                                          pv |-> pv, url |-> fileForEdition(edition),
                                          ok |-> "none", e |-> "none"])
               /\ fetches' = Append(fetches, fileForEdition(edition))
          ELSE UNCHANGED <<loads, fetches>>
       /\ IF ~mounted'
          THEN versionStatus' = versionStatus
          ELSE IF deps.status # StatusDeps /\ StatusEffectFires(pv)
          THEN versionStatus' = StatusResult(pv)
          ELSE UNCHANGED versionStatus
       /\ IF ~mounted'
          THEN showVersionToast' = showVersionToast /\ toastTimer' = FALSE
          ELSE IF deps.toast # ToastDeps
          THEN \* the cleanup of the previous run clears its timer, then the body
               IF ToastEffectFires(pv)
               THEN showVersionToast' = TRUE /\ toastTimer' = TRUE
               ELSE showVersionToast' = showVersionToast /\ toastTimer' = FALSE
          ELSE UNCHANGED <<showVersionToast, toastTimer>>
    /\ deps' = [load |-> LoadDeps, qr |-> QrDeps, status |-> StatusDeps,
                toast |-> ToastDeps]
    /\ UNCHANGED <<path, edition, versionHash, cvData, error, isShareBoxVisible,
                   sharePending,
                   hashVars, parseVars, exportVars>>

\* lines 99-102: the catch block, entered with the exception e
Caught(l, ok, e) ==
    /\ error' = SetState(LoadErrorMessage, error)
    /\ loads' = [loads EXCEPT ![l].pc = "caught", ![l].ok = ok, ![l].e = e]

\* mutant of FetchRejects: a rejected edition fetch falls back to the
\* default resource
FetchRejectsFallsBack(l) ==
    /\ loads[l].pc \in {"fetch1", "fetch2"}
    /\ IF loads[l].pc = "fetch1" /\ Truthy(loads[l].edition)
       THEN /\ loads' = [loads EXCEPT ![l].pc = "fetch2", ![l].url = DefaultFile]
            /\ fetches' = Append(fetches, DefaultFile)
            /\ error' = error
       ELSE /\ Caught(l, loads[l].ok, "fetch rejected")
            /\ fetches' = fetches
    /\ UNCHANGED <<path, edition, versionHash, versionStatus, cvData,
                   showVersionToast, toastTimer, deps, hashVars, parseVars,
                   exportVars,
                   shareVars>>

\* line 83 or 87: the awaited fetch rejects (network error)
FetchRejects(l) ==
    /\ loads[l].pc \in {"fetch1", "fetch2"}
    /\ Caught(l, loads[l].ok, "fetch rejected")
    /\ UNCHANGED <<path, edition, versionHash, versionStatus, cvData,
                   showVersionToast, toastTimer, deps, fetches, hashVars, parseVars,
                   exportVars,
                   shareVars>>

\* lines 83-84, 95: the first fetch resolves with response.ok
FetchOk(l) ==
    /\ loads[l].pc = "fetch1"
    /\ loads' = [loads EXCEPT ![l].pc = "json", ![l].ok = "ok"]
    /\ UNCHANGED <<path, edition, versionHash, versionStatus, cvData, error,
                   showVersionToast, toastTimer, deps, fetches, hashVars, parseVars,
                   exportVars,
                   shareVars>>

\* lines 83-87: the first fetch resolves with !response.ok and an edition was
\* asked for: the fallback fetch is issued
FetchNotOkFallsBack(l) ==
    /\ loads[l].pc = "fetch1"
    /\ Truthy(loads[l].edition)
    /\ loads' = [loads EXCEPT ![l].pc = "fetch2", ![l].ok = "notok",
                              ![l].url = DefaultFile]
    /\ fetches' = Append(fetches, DefaultFile)
    /\ UNCHANGED <<path, edition, versionHash, versionStatus, cvData, error,
                   showVersionToast, toastTimer, deps, hashVars, parseVars,
                   exportVars,
                   shareVars>>

\* lines 83-85, 91-92: the first fetch resolves with !response.ok and no edition
FetchNotOkThrows(l) ==
    /\ loads[l].pc = "fetch1"
    /\ ~Truthy(loads[l].edition)
    /\ Caught(l, "notok", "HTTP error")
    /\ UNCHANGED <<path, edition, versionHash, versionStatus, cvData,
                   showVersionToast, toastTimer, deps, fetches, hashVars, parseVars,
                   exportVars,
                   shareVars>>

\* lines 87-88: the fallback fetch resolves with !response.ok
FallbackNotOk(l) ==
    /\ loads[l].pc = "fetch2"
    /\ Caught(l, "notok", "HTTP error")
    /\ UNCHANGED <<path, edition, versionHash, versionStatus, cvData,
                   showVersionToast, toastTimer, deps, fetches, hashVars, parseVars,
                   exportVars,
                   shareVars>>

\* lines 87-90, 95: the fallback fetch resolves with response.ok; the
\* replaceState of line 90 rewrites the path, or throws (its exception is
\* swallowed) and leaves the path as it is
FallbackOk(l, replaced) ==
    /\ loads[l].pc = "fetch2"
    /\ edition' = SetState(NULL, edition)
    /\ path' = IF replaced THEN RewrittenPath(loads[l].pv) ELSE path
    /\ loads' = [loads EXCEPT ![l].pc = "json", ![l].ok = "ok"]
    /\ UNCHANGED <<versionHash, versionStatus, cvData, error,
                   showVersionToast, toastTimer, deps, fetches, hashVars, parseVars,
                   exportVars,
                   shareVars>>

\* lines 95-98: response.json() resolves with the document data
JsonResolves(l, data) ==
    /\ loads[l].pc = "json"
    /\ cvData' = SetState(<<l, data>>, cvData)
    /\ versionHash' = SetState(computeVersionHash(data), versionHash)
    /\ loads' = [loads EXCEPT ![l].pc = "done"]
    /\ UNCHANGED <<path, edition, versionStatus, error,
                   showVersionToast, toastTimer, deps, fetches, hashVars, parseVars,
                   exportVars,
                   shareVars>>

\* line 95: response.json() rejects (the body is not JSON)
JsonRejects(l) ==
    /\ loads[l].pc = "json"
    /\ Caught(l, loads[l].ok, "json rejected")
    /\ UNCHANGED <<path, edition, versionHash, versionStatus, cvData,
                   showVersionToast, toastTimer, deps, fetches, hashVars, parseVars,
                   exportVars,
                   shareVars>>

\* line 378: the 6000 ms timer of the toast effect fires
ToastTimeout ==
    /\ toastTimer
    /\ showVersionToast' = FALSE
    /\ toastTimer' = FALSE
    /\ UNCHANGED <<path, edition, versionHash, versionStatus, cvData, error,
                   loads, deps, fetches, hashVars, parseVars,
                   exportVars,
                   shareVars>>

\* lines 383-401, 652: the toast is on the page
ToastRendered == showVersionToast /\ Rendered = "document"

\* line 662: the close button of the toast
CloseToast ==
    /\ ToastRendered
    /\ showVersionToast' = FALSE
    /\ UNCHANGED <<path, edition, versionHash, versionStatus, cvData, error,
                   toastTimer, loads, deps, fetches, hashVars, parseVars,
                   exportVars,
                   shareVars>>

\* line 588, part_001 line 349: the pointer enters the share area. The
\* area is on the page once a render with the document has been committed,
\* and React runs the effects of a render before it handles the next event
\* of the user: the handlers of the share area run with no effect due
HoverShare ==
    /\ Rendered = "document"
    /\ ~NeedsCommit
    /\ isShareBoxVisible' = TRUE
    /\ UNCHANGED <<sharePending, qrCodeInstance, previousQrUrl, mounted,
                   pageVars, hashVars, parseVars, exportVars>>

\* line 589, part_001 line 350: the pointer leaves the share area
LeaveShare ==
    /\ Rendered = "document"
    /\ ~NeedsCommit
    /\ isShareBoxVisible' = FALSE
    /\ UNCHANGED <<sharePending, qrCodeInstance, previousQrUrl, mounted,
                   pageVars, hashVars, parseVars, exportVars>>

\* the calls of handleShareButtonClick that wait for navigator.share at one
\* time
MaxShares == 1

\* lines 152-153 and 136-140: the click on the share button, which is on
\* the page with the document; handleShareButtonClick runs to its await of
\* handleNativeShare
ShareButtonClick ==
    /\ Rendered = "document"
    /\ ~NeedsCommit
    /\ sharePending < MaxShares
    /\ sharePending' = sharePending + 1
    /\ UNCHANGED <<isShareBoxVisible, qrCodeInstance, previousQrUrl, mounted,
                   pageVars, hashVars, parseVars, exportVars>>

\* lines 137-158: handleNativeShare answers and handleShareButtonClick goes
\* on, whatever the page renders by then; usedNative is TRUE when
\* navigator.share exists and resolves, FALSE when it is missing or rejects,
\* and then the box is toggled
ShareSettles(usedNative) ==
    /\ sharePending > 0
    /\ sharePending' = sharePending - 1
    /\ isShareBoxVisible' = IF usedNative THEN isShareBoxVisible
                            ELSE SetState(~isShareBoxVisible, isShareBoxVisible)
    /\ UNCHANGED <<qrCodeInstance, previousQrUrl, mounted, pageVars, hashVars,
                   parseVars, exportVars>>

(***************************************************************************)
(* The PDF export, handleDownloadPdf, src/App.tsx:160-355.                 *)
(***************************************************************************)
\* no footer: the live content has no print-footer element
NoFooter == [url |-> <<>>, edition |-> <<>>, version |-> <<>>]

\* what the export reads and rewrites in a copy of the #cv-content subtree
\* of lines 407-581: the footer (absent on the page), the interactive
\* elements of the selector of line 226 (they are rendered outside
\* #cv-content, so none is inside), the hidden contact spans, the
\* certificate links in their short form, and the icons
LiveContent ==
    [footer |-> NoFooter, interactive |-> FALSE, hiddenSpans |-> "hidden",
     certificateUrls |-> "short", icons |-> TRUE]

\* lines 14-22: PDF_CONFIG
PAGE_WIDTH_MM == 210
PAGE_HEIGHT_MM == 297
PAGE_MARGIN_MM == 15
PRINTABLE_WIDTH_MM == 180

\* line 303
printableHeightMm == PAGE_HEIGHT_MM - (PAGE_MARGIN_MM * 2)

\* line 318: imgWidthPx / printableWidthMm
pxPerMm(imgWidthPx) == NumDiv(NumOfInt(imgWidthPx), NumOfInt(PRINTABLE_WIDTH_MM))

\* line 319: printableHeightMm * pxPerMm
pageHeightPx(imgWidthPx) == NumMulInt(printableHeightMm, pxPerMm(imgWidthPx))

\* line 321: Math.ceil(imgHeightPx / pageHeightPx)
totalPages(imgWidthPx, imgHeightPx) ==
    NumCeil(NumDiv(NumOfInt(imgHeightPx), pageHeightPx(imgWidthPx)))

\* line 329: Math.floor(page * pageHeightPx)
SliceTop(imgWidthPx, page) == NumFloor(NumMulInt(page, pageHeightPx(imgWidthPx)))

\* line 330: Math.min(pageHeightPx, imgHeightPx - sy); imgHeightPx - sy is
\* never negative for page < totalPages
SliceHeight(imgWidthPx, imgHeightPx, sy) ==
    IF NumCmp(pageHeightPx(imgWidthPx), NumOfInt(imgHeightPx - sy)) <= 0
    THEN pageHeightPx(imgWidthPx)
    ELSE NumOfInt(imgHeightPx - sy)

\* lines 326-342: what one iteration of the loop hands to the document: the
\* slice of the bitmap (sy, sHeight), the height of the page canvas (the
\* height attribute keeps the integer part of sHeight), and the placement
\* of the image
PageSlice(imgWidthPx, imgHeightPx, page) ==
    Bind(SliceTop(imgWidthPx, page),
         LAMBDA sy :
            Bind(SliceHeight(imgWidthPx, imgHeightPx, sy),
                 LAMBDA sHeight :
                    [sy |-> sy,
                     sHeight |-> sHeight,
                     canvasHeight |-> NumFloor(sHeight),
                     x |-> PAGE_MARGIN_MM,
                     y |-> PAGE_MARGIN_MM,
                     width |-> PRINTABLE_WIDTH_MM,
                     renderHeightMm |-> NumDiv(sHeight, pxPerMm(imgWidthPx))]))

\* lines 383-401 and 631-636: the download button is on the page and enabled
DownloadEnabled == Rendered = "document" /\ ~isDownloading

\* lines 236-238: the text of the footer; shareUrl, edition and versionHash
\* are those of the render whose handleDownloadPdf was called, which the
\* invocation c holds in its closure
FooterText(c) ==
    [url |-> shareUrlOf(configuredBaseOrigin, c.edition, c.versionHash),
     edition |-> IF Truthy(c.edition) THEN c.edition ELSE <<98, 97, 115, 101>>,
     version |-> IF Truthy(c.versionHash) THEN c.versionHash ELSE <<45>>]

\* mutant of AppendFooter: the footer appended to the live element
AppendFooterToLive(page, clone, footer) == <<[page EXCEPT !.footer = footer], clone>>

\* line 241: clone.appendChild(footer); the page and the clone afterwards
AppendFooter(page, clone, footer) == <<page, [clone EXCEPT !.footer = footer]>>

\* lines 226 and 280-295: the elements removed from the clone and the
\* rewrites of the clone
RewriteClone(clone) ==
    [clone EXCEPT !.interactive = FALSE, !.hiddenSpans = "inline",
                  !.certificateUrls = "full", !.icons = FALSE]

\* lines 248-275: the rules of the injected style element, by the line
\* they are written on: the @font-face rule of line 248 has no selector and
\* holds for the document; every selector of the rules of lines 249-275
\* starts with #cv-pdf-clone (line 251 is a comment)
TempStyleRules ==
    {[line |-> l,
      kind |-> IF l = 248 THEN "font-face" ELSE "style",
      scope |-> IF l = 248 THEN "document" ELSE "#cv-pdf-clone"] :
        l \in (248..275) \ {251}}

\* lines 207-296, from the end of the wait to the call of html2canvas:
\* invocation i sets the flag, builds and attaches its clone and the style
\* element, and waits for the bitmap
Begin(i, invs) ==
    /\ isDownloading' = SetState(TRUE, isDownloading)
    /\ live' = AppendFooter(live, live, FooterText(invs[i]))[1]
    /\ inv' = [invs EXCEPT ![i].pc = "rasterizing",
                           ![i].clone = RewriteClone(
                               AppendFooter(live, live, FooterText(invs[i]))[2])]
    /\ clones' = clones \cup {i}
    /\ tempStyles' = tempStyles + 1

\* a new invocation record, at the wait for the image; the handler called
\* is the one of the current render, with its edition and versionHash
NewInvocation ==
    [pc |-> "waiting", clone |-> NULL, imgWidthPx |-> 0, imgHeightPx |-> 0,
     totalPages |-> 0, page |-> 0, pages |-> <<>>, outcome |-> "none",
     edition |-> edition, versionHash |-> versionHash]

\* lines 160-205 with img.complete: the click on the download button goes
\* through the wait at once
ClickImageComplete ==
    /\ DownloadEnabled
    /\ Len(inv) < MaxClicks
    /\ img # "loading"
    /\ Begin(Len(inv) + 1, Append(inv, NewInvocation))
    /\ UNCHANGED <<img, fallbackTried, imgHandler, saveCalls, alerts,
                   pageVars, hashVars, parseVars,
                   shareVars>>

\* mutant of ClickImageLoading: the invocation does not wait for the image
ClickImageLoadingNoWait ==
    /\ DownloadEnabled
    /\ Len(inv) < MaxClicks
    /\ img = "loading"
    /\ Begin(Len(inv) + 1, Append(inv, NewInvocation))
    /\ UNCHANGED <<img, fallbackTried, imgHandler, saveCalls, alerts,
                   pageVars, hashVars, parseVars,
                   shareVars>>

\* mutant of ClickImageLoading: the handlers of an invocation that still
\* waits are kept, the later invocation installs none
ClickImageLoadingKeepsHandler ==
    /\ DownloadEnabled
    /\ Len(inv) < MaxClicks
    /\ img = "loading"
    /\ inv' = Append(inv, NewInvocation)
    /\ imgHandler' = IF imgHandler # 0 /\ inv[imgHandler].pc = "waiting"
                     THEN imgHandler ELSE Len(inv) + 1
    /\ UNCHANGED <<isDownloading, img, fallbackTried, live, clones, tempStyles,
                   saveCalls, alerts, pageVars, hashVars, parseVars,
                   shareVars>>

\* lines 160-205 with the image still loading: the click installs the
\* handlers of this invocation on the image and waits
ClickImageLoading ==
    /\ DownloadEnabled
    /\ Len(inv) < MaxClicks
    /\ img = "loading"
    /\ inv' = Append(inv, NewInvocation)
    /\ imgHandler' = Len(inv) + 1
    /\ UNCHANGED <<isDownloading, img, fallbackTried, live, clones, tempStyles,
                   saveCalls, alerts, pageVars, hashVars, parseVars,
                   shareVars>>

\* lines 202-203: the load or error event runs the handler the image holds;
\* the invocation it resolves, if that one still waits, goes on
ImageHandlerRuns ==
    IF imgHandler # 0 /\ inv[imgHandler].pc = "waiting"
    THEN Begin(imgHandler, inv)
    ELSE UNCHANGED <<isDownloading, live, inv, clones, tempStyles>>

\* the image finishes loading
ImageLoads ==
    /\ img = "loading"
    /\ img' = "loaded"
    /\ ImageHandlerRuns
    /\ UNCHANGED <<fallbackTried, imgHandler, saveCalls, alerts,
                   pageVars, hashVars, parseVars,
                   shareVars>>

\* lines 419-427: the image fails to load; the first time React's onError
\* sets the relative src and the image loads again, the second time it
\* stays broken. React calls onError for the element while the document is
\* rendered; once the element has left the page (the error message is
\* rendered, or the tree is unmounted) only the onerror property of line
\* 203 is left on it, and the image stays broken at its first failure
ImageFails ==
    /\ img = "loading"
    /\ img' = IF Rendered = "document" /\ ~fallbackTried THEN "loading" ELSE "broken"
    /\ fallbackTried' = (fallbackTried \/ Rendered = "document")
    /\ ImageHandlerRuns
    /\ UNCHANGED <<imgHandler, saveCalls, alerts, pageVars, hashVars, parseVars,
                   shareVars>>

\* lines 349-354: the finally block of invocation i
Cleanup(i, outcome, invs) ==
    /\ tempStyles' = IF tempStyles > 0 THEN tempStyles - 1 ELSE 0
    /\ clones' = clones \ {i}
    /\ isDownloading' = SetState(FALSE, isDownloading)
    /\ inv' = [invs EXCEPT ![i].pc = "done", ![i].outcome = outcome]

\* lines 346-348 and the finally block: an exception of the try block
Fails(i) ==
    /\ alerts' = alerts + 1
    /\ Cleanup(i, "failed", inv)
    /\ UNCHANGED <<img, fallbackTried, imgHandler, live, saveCalls,
                   pageVars, hashVars, parseVars,
                   shareVars>>

\* lines 306-324: html2canvas resolves with a bitmap
RasterizeResolves(i, w, h) ==
    /\ inv[i].pc = "rasterizing"
    /\ inv' = [inv EXCEPT ![i].pc = "paging", ![i].imgWidthPx = w,
                          ![i].imgHeightPx = h, ![i].totalPages = totalPages(w, h)]
    /\ UNCHANGED <<isDownloading, img, fallbackTried, imgHandler, live, clones,
                   tempStyles, saveCalls, alerts, pageVars, hashVars, parseVars,
                   shareVars>>

\* line 306: html2canvas rejects
RasterizeRejects(i) ==
    /\ inv[i].pc = "rasterizing"
    /\ Fails(i)

\* lines 326-342: one iteration of the loop
AddPage(i) ==
    /\ inv[i].pc = "paging"
    /\ inv[i].page < inv[i].totalPages
    /\ inv' = [inv EXCEPT
                 ![i].pages = Append(inv[i].pages,
                                     PageSlice(inv[i].imgWidthPx, inv[i].imgHeightPx,
                                               inv[i].page)),
                 ![i].page = inv[i].page + 1]
    /\ UNCHANGED <<isDownloading, img, fallbackTried, imgHandler, live, clones,
                   tempStyles, saveCalls, alerts, pageVars, hashVars, parseVars,
                   shareVars>>

\* lines 326-342: drawing, encoding or adding the page throws
AddPageThrows(i) ==
    /\ inv[i].pc = "paging"
    /\ inv[i].page < inv[i].totalPages
    /\ Fails(i)

\* lines 344 and 349-354: the loop has ended, the file is saved
Save(i) ==
    /\ inv[i].pc = "paging"
    /\ inv[i].page >= inv[i].totalPages
    /\ saveCalls' = saveCalls + 1
    /\ Cleanup(i, "saved", inv)
    /\ UNCHANGED <<img, fallbackTried, imgHandler, live, alerts,
                   pageVars, hashVars, parseVars,
                   shareVars>>

\* lines 344, 346-354: the loop has ended and doc.save throws; the catch
\* block alerts and the finally block follows
SaveThrows(i) ==
    /\ inv[i].pc = "paging"
    /\ inv[i].page >= inv[i].totalPages
    /\ saveCalls' = saveCalls + 1
    /\ alerts' = alerts + 1
    /\ Cleanup(i, "failed", inv)
    /\ UNCHANGED <<img, fallbackTried, imgHandler, live,
                   pageVars, hashVars, parseVars,
                   shareVars>>

(***************************************************************************)
(* Specifications of the pure parts: the variables of the other parts stay *)
(* at rest.                                                                *)
(***************************************************************************)
PageAtRest ==
    /\ path = <<>>
    /\ edition = NULL
    /\ versionHash = NULL
    /\ versionStatus = "unknown"
    /\ cvData = NoData
    /\ error = NoError
    /\ showVersionToast = FALSE
    /\ toastTimer = FALSE
    /\ loads = <<>>
    /\ deps = [load |-> <<>>, qr |-> <<>>, status |-> <<>>, toast |-> <<>>]
    /\ fetches = <<>>

\* lines 50, 53-55: the share box is closed, no QR code has been drawn, and
\* the component is on the page
ShareAtRest ==
    /\ isShareBoxVisible = FALSE
    /\ sharePending = 0
    /\ qrCodeInstance = FALSE
    /\ previousQrUrl = NULL
    /\ mounted = TRUE

HashAtRest ==
    /\ hPc = "idle"
    /\ hData = NULL
    /\ hJson = NULL
    /\ hI = 0
    /\ hHash = <<0, 0>>
    /\ hStamp = NULL

ParseAtRest ==
    /\ pPc = "idle"
    /\ pPath = NULL
    /\ pEdition = NULL
    /\ pVersion = NULL

\* no export has been triggered; the document is not on the page
ExportAtRest ==
    /\ isDownloading = FALSE
    /\ img = "loading"
    /\ fallbackTried = FALSE
    /\ imgHandler = 0
    /\ inv = <<>>
    /\ live = LiveContent
    /\ clones = {}
    /\ tempStyles = 0
    /\ saveCalls = 0
    /\ alerts = 0

\* computeVersionHash called with each document of DataInputs
InitHash ==
    /\ ShareAtRest
    /\ PageAtRest
    /\ ParseAtRest
    /\ ExportAtRest
    /\ hPc = "start"
    /\ hData \in DataInputs
    /\ hJson = NULL
    /\ hI = 0
    /\ hHash = <<0, 0>>
    /\ hStamp = NULL

NextHash == HashStart \/ HashStep \/ HashUnsigned \/ HashFormat

SpecHash == InitHash /\ [][NextHash]_vars

\* the value of a string of base-Radix digit values, most significant first
RECURSIVE DigitsValue(_, _)
DigitsValue(ds, n) ==
    IF n = 0 THEN <<0, 0>>
    ELSE Bind(DigitsValue(ds, n - 1),
              LAMBDA v : LET lo == (v[2] * Radix) + ds[n]
                         IN  <<(v[1] * Radix) + (lo \div Half), lo % Half>>)

\* Radix^StampLen, the first value with more than StampLen digits
StampModulus == DigitsValue([i \in 1..(StampLen + 1) |-> IF i = 1 THEN 1 ELSE 0],
                            StampLen + 1)

PairLess(a, b) == a[1] < b[1] \/ (a[1] = b[1] /\ a[2] < b[2])

\* a - b for pairs a >= b
PairSub(a, b) ==
    IF a[2] >= b[2] THEN <<a[1] - b[1], a[2] - b[2]>>
    ELSE <<a[1] - b[1] - 1, a[2] + Half - b[2]>>

\* the unsigned 32-bit values the formatting is started from: evenly spaced
\* halves, and the values around the powers of Radix and at both ends
GridHalf(a) == (a * (Half - 1)) \div StampGrid

StampInputs ==
    {<<GridHalf(a), GridHalf(b)>> : a \in 0..StampGrid, b \in 0..StampGrid}
    \cup {<<0, 1>>, <<0, Radix - 1>>, <<0, Radix>>,
          PairSub(StampModulus, <<0, 1>>), StampModulus,
          NumAdd(StampModulus, <<0, 1>>),
          <<Half - 1, Half - 1>>, <<Half \div 2, 0>>}

\* lines 74-75 entered with each unsigned hash of StampInputs (the loop that
\* produced it is not part of this specification)
InitStamp ==
    /\ ShareAtRest
    /\ PageAtRest
    /\ ParseAtRest
    /\ ExportAtRest
    /\ hPc = "format"
    /\ hData = NULL
    /\ hJson = NULL
    /\ hI = 0
    /\ hHash \in StampInputs
    /\ hStamp = NULL

NextStamp == HashFormat

SpecStamp == InitStamp /\ [][NextStamp]_vars

\* the edition segments of the paths: every string over a e % 4 up to
\* MaxEditionLen, and acme, acme-2, a%2Fb, %C3%A9, %F0%9F%98%80, %E2%82
EditionChars == {97, 101, 37, 52}

EditionInputs ==
    StringsUpTo(EditionChars, MaxEditionLen)
    \cup {<<97, 99, 109, 101>>, <<97, 99, 109, 101, 45, 50>>,
          <<97, 37, 50, 70, 98>>, <<37, 67, 51, 37, 65, 57>>,
          <<37, 70, 48, 37, 57, 70, 37, 57, 56, 37, 56, 48>>,
          <<37, 69, 50, 37, 56, 50>>}

\* the first n characters of AB12CDxy90AB12CDxy90...
SampleVersion(n) ==
    [i \in 1..n |-> <<65, 66, 49, 50, 67, 68, 120, 121, 57, 48>>[((i - 1) % 10) + 1]]

\* the version segments: samples of every length, alone and followed by -Z9
SegmentInputs ==
    {SampleVersion(n) : n \in 0..MaxSegmentLen}
    \cup {SampleVersion(n) \o <<45, 90, 57>> : n \in 0..MaxSegmentLen}

\* what precedes the first marker, and what follows the last segment
PrefixInputs == {<<>>, <<CharSlash, 120>>}
TailInputs == {<<>>, <<CharSlash, 120>>}

EPart(e) == <<CharSlash, CharE, CharSlash>> \o e
VPart(v) == <<CharSlash, CharV, CharSlash>> \o v

PathInputs ==
    {<<>>, <<CharSlash>>, <<CharSlash, CharV, CharE, CharSlash, 97>>}
    \cup {pre \o EPart(e) \o tail :
            pre \in PrefixInputs, e \in EditionInputs, tail \in TailInputs \cup {<<CharSlash>>}}
    \cup {pre \o EPart(e) \o VPart(v) \o tail :
            pre \in PrefixInputs, e \in EditionInputs, v \in SegmentInputs, tail \in TailInputs}
    \cup {pre \o VPart(v) \o tail :
            pre \in PrefixInputs \cup {<<CharSlash, 120, CharE>>},
            v \in SegmentInputs, tail \in TailInputs \cup {EPart(<<97>>)}}
    \cup {SubSeq(EPart(e), 2, Len(e) + 3) \o VPart(v) :
            e \in {<<97>>, <<37, 52, 52>>}, v \in SegmentInputs}
    \cup {SubSeq(VPart(v), 2, Len(v) + 3) : v \in SegmentInputs}

\* App rendered at each path of PathInputs
InitPath ==
    /\ ShareAtRest
    /\ PageAtRest
    /\ HashAtRest
    /\ ExportAtRest
    /\ pPc = "start"
    /\ pPath \in PathInputs
    /\ pEdition = NULL
    /\ pVersion = NULL

NextPath == ParsePath

SpecPath == InitPath /\ [][NextPath]_vars

\* the page with the default document loaded from the path /, every effect
\* run: the state the export is triggered in
PageShowsDocument ==
    /\ path = <<CharSlash>>
    /\ edition = NULL
    /\ cvData = <<1, <<99, 118>>>>
    /\ versionHash = computeVersionHash(<<99, 118>>)
    /\ versionStatus = "unknown"
    /\ error = NoError
    /\ showVersionToast = FALSE
    /\ toastTimer = FALSE
    /\ loads = <<[pc |-> "done", edition |-> NULL, pv |-> NULL, url |-> DefaultFile,
                 ok |-> "ok", e |-> "none"]>>
    /\ deps = [load |-> <<NULL>>,
               qr |-> <<FALSE, shareUrlOf(configuredBaseOrigin, NULL,
                                          computeVersionHash(<<99, 118>>))>>,
               status |-> <<"unknown", NULL, computeVersionHash(<<99, 118>>)>>,
               toast |-> <<NULL, "unknown">>]
    /\ fetches = <<DefaultFile>>

\* the widths of the bitmaps: 1360 is the 680 px clone at scale 2; 180 makes
\* the page height a whole number of pixels; 1280 and 1361 are other widths
CanvasWidths == {180, 1280, 1360, 1361}

\* the heights tried with a width: around each multiple of the page height
HeightInputs(w) ==
    {h \in {NumFloor(NumMulInt(k, pageHeightPx(w))) + d : k \in 1..MaxSheets, d \in -1..1} :
        h >= 1}

PageCanvases == UNION {{<<w, h>> : h \in HeightInputs(w)} : w \in CanvasWidths}

\* the export with the bitmap still to come, for every bitmap of PageCanvases
InitPaginate ==
    /\ ShareAtRest
    /\ HashAtRest
    /\ ParseAtRest
    /\ PageShowsDocument
    /\ isDownloading = TRUE
    /\ img = "loaded"
    /\ fallbackTried = FALSE
    /\ imgHandler = 0
    /\ inv = <<[NewInvocation EXCEPT
                  !.pc = "rasterizing",
                  !.clone = RewriteClone(
                      AppendFooter(LiveContent, LiveContent,
                                   FooterText(NewInvocation))[2])]>>
    /\ live = LiveContent
    /\ clones = {1}
    /\ tempStyles = 1
    /\ saveCalls = 0
    /\ alerts = 0

NextPaginate ==
    \/ \E c \in PageCanvases : RasterizeResolves(1, c[1], c[2])
    \/ AddPage(1)
    \/ Save(1)
    \/ SaveThrows(1)

SpecPaginate == InitPaginate /\ [][NextPaginate]_vars

\* the bitmap of the export runs: the 1360 px clone (680 px at scale 2) with
\* the height of one page
ExportCanvases ==
    {<<1360, NumFloor(pageHeightPx(1360))>>}

\* acme, the edition of the paths the page is opened at
PageEdition == <<97, 99, 109, 101>>

\* the page opened at /e/acme after the fallback: the first load has stored
\* the default document and the load started by setEdition(null) has its
\* response and awaits the body
PageAfterFallback ==
    /\ path = <<CharSlash>>
    /\ edition = NULL
    /\ cvData = <<1, <<99, 118>>>>
    /\ versionHash = computeVersionHash(<<99, 118>>)
    /\ versionStatus = "unknown"
    /\ error = NoError
    /\ showVersionToast = FALSE
    /\ toastTimer = FALSE
    /\ loads = <<[pc |-> "done", edition |-> PageEdition, pv |-> NULL,
                  url |-> DefaultFile, ok |-> "ok", e |-> "none"],
                 [pc |-> "json", edition |-> NULL, pv |-> NULL,
                  url |-> DefaultFile, ok |-> "ok", e |-> "none"]>>
    /\ deps = [load |-> <<NULL>>,
               qr |-> <<FALSE, shareUrlOf(configuredBaseOrigin, NULL,
                                          computeVersionHash(<<99, 118>>))>>,
               status |-> <<"unknown", NULL, computeVersionHash(<<99, 118>>)>>,
               toast |-> <<NULL, "unknown">>]
    /\ fetches = <<fileForEdition(PageEdition), DefaultFile, DefaultFile>>

\* the page opened at /e/acme after the fallback, the document on it, the
\* load started by setEdition(null) still under way, the image loading, no
\* export so far
InitExport ==
    /\ ShareAtRest
    /\ HashAtRest
    /\ ParseAtRest
    /\ PageAfterFallback
    /\ ExportAtRest

\* the export and what goes on on the same page meanwhile: the second load
\* replaces the document and the stamp or sets the error, the effects run,
\* the share box is used
NextExport ==
    \/ \E l \in 1..Len(loads) : \E d \in Served(loads[l].url) : JsonResolves(l, d)
    \/ \E l \in 1..Len(loads) : JsonRejects(l)
    \/ \E qr \in QrOutcomes : Commit(qr)
    \/ HoverShare
    \/ LeaveShare
    \/ ShareButtonClick
    \/ \E usedNative \in BOOLEAN : ShareSettles(usedNative)
    \/ ClickImageComplete
    \/ ClickImageLoading
    \/ ImageLoads
    \/ ImageFails
    \/ \E i \in 1..Len(inv) : \E c \in ExportCanvases : RasterizeResolves(i, c[1], c[2])
    \/ \E i \in 1..Len(inv) : RasterizeRejects(i)
    \/ \E i \in 1..Len(inv) : AddPage(i)
    \/ \E i \in 1..Len(inv) : AddPageThrows(i)
    \/ \E i \in 1..Len(inv) : Save(i)
    \/ \E i \in 1..Len(inv) : SaveThrows(i)

SpecExport == InitExport /\ [][NextExport]_vars

\* the paths the page is opened at: with and without the edition acme, with
\* no version, with the stamp of each document, and with a stamp of none;
\* and with an edition whose name holds escapes
PageVersions ==
    {computeVersionHash(d) : d \in DefaultDocs \cup EditionDocs}
    \cup {<<90, 90, 90, 90>>}

\* a%2F%C3%A9, the edition a/\u00E9 as a path segment
EscapedEdition == <<97, 37, 50, 70, 37, 67, 51, 37, 65, 57>>

PagePaths ==
    {<<CharSlash>>, EPart(PageEdition)}
    \cup {VPart(v) : v \in PageVersions}
    \cup {EPart(PageEdition) \o VPart(v) : v \in PageVersions}
    \cup {EPart(EscapedEdition), EPart(EscapedEdition) \o VPart(<<90, 90, 90, 90>>)}

\* lines 43-52: the state of App at its first render
Init ==
    /\ ShareAtRest
    /\ HashAtRest
    /\ ParseAtRest
    /\ ExportAtRest
    /\ path \in PagePaths
    /\ edition = initialEdition(path)
    /\ versionHash = NULL
    /\ versionStatus = "unknown"
    /\ cvData = NoData
    /\ error = NoError
    /\ showVersionToast = FALSE
    /\ toastTimer = FALSE
    /\ loads = <<>>
    /\ deps = [load |-> <<>>, qr |-> <<>>, status |-> <<>>, toast |-> <<>>]
    /\ fetches = <<>>

Next ==
    \/ \E qr \in QrOutcomes : Commit(qr)
    \/ HoverShare
    \/ LeaveShare
    \/ ShareButtonClick
    \/ \E usedNative \in BOOLEAN : ShareSettles(usedNative)
    \/ \E l \in 1..Len(loads) : FetchRejects(l)
    \/ \E l \in 1..Len(loads) : FetchOk(l)
    \/ \E l \in 1..Len(loads) : FetchNotOkFallsBack(l)
    \/ \E l \in 1..Len(loads) : FetchNotOkThrows(l)
    \/ \E l \in 1..Len(loads) : FallbackNotOk(l)
    \/ \E l \in 1..Len(loads) : \E replaced \in BOOLEAN : FallbackOk(l, replaced)
    \/ \E l \in 1..Len(loads) : \E d \in Served(loads[l].url) : JsonResolves(l, d)
    \/ \E l \in 1..Len(loads) : JsonRejects(l)
    \/ ToastTimeout
    \/ CloseToast

Spec == Init /\ [][Next]_vars

(***************************************************************************)
(* C1 - C7: the load, the version status and the path rewrite.             *)
(***************************************************************************)
LoadIds == 1..Len(loads)

\* nothing is left to happen: every load has ended and no effect is due
AllSettled ==
    /\ ~NeedsCommit
    /\ \A l \in LoadIds : loads[l].pc \in {"done", "caught"}

\* load l asked for an edition, its fallback fetch answered with success
FellBack(l) ==
    /\ Truthy(loads[l].edition)
    /\ loads[l].url = DefaultFile
    /\ loads[l].ok = "ok"

\* C1: when the page was loaded with an edition, the edition fetch returned
\* non-success and the fallback fetch of the default resource succeeded (its
\* body parsed and the document was stored), then in the final state the
\* edition is null and no load error is set.
C1_FallbackSuccessEndsWithoutError ==
    (AllSettled /\ \E l \in LoadIds : FellBack(l) /\ loads[l].pc = "done")
        => (edition = NULL /\ error = NoError)

\* load l ended on the HTTP error thrown at line 88 or line 92
HttpFailed(l) == loads[l].pc = "caught" /\ loads[l].e = "HTTP error"

\* C2: when the default fetch answers non-success with no edition, or the
\* fallback fetch answers non-success after a failed edition fetch, the load
\* error is set, and from then on no fetch is issued.
C2_HttpFailureSetsErrorAndHalts ==
    /\ [](\A l \in LoadIds : HttpFailed(l) => error = LoadErrorMessage)
    /\ [][(\E l \in LoadIds : HttpFailed(l)) => fetches' = fetches]_vars

\* C3: within one page lifetime the document state and the version stamp
\* state are each assigned at most once and never change afterwards.
C3_DocumentAndStampAssignedOnce ==
    [][/\ cvData # NoData => cvData' = cvData
       /\ versionHash # NULL => versionHash' = versionHash]_vars

\* C4: the version status is match or mismatch only when a provided version
\* and a computed stamp both exist; the step that takes it out of unknown
\* makes it match exactly when the two strings are equal and mismatch
\* otherwise; and once both exist and the effects have run it is not unknown.
C4_StatusComparesVersionAndStamp ==
    /\ [](versionStatus # "unknown" =>
            Truthy(providedVersionFromUrl(path)) /\ Truthy(versionHash))
    /\ []((~NeedsCommit /\ Truthy(providedVersionFromUrl(path)) /\ Truthy(versionHash))
            => versionStatus # "unknown")
    /\ [][(versionStatus = "unknown" /\ versionStatus' # "unknown") =>
            /\ (providedVersionFromUrl(path) = versionHash) => versionStatus' = "match"
            /\ (providedVersionFromUrl(path) # versionHash) => versionStatus' = "mismatch"]_vars

\* the status resolved to match on a page whose edition fell back
C4_Witness ==
    /\ versionStatus = "match"
    /\ \E l \in LoadIds : FellBack(l)

\* C5: after the version status has left unknown no step changes it.
C5_StatusComputedOnce ==
    [][versionStatus # "unknown" => versionStatus' = versionStatus]_vars

\* the status is match although a second load has since replaced the stamp
\* with one that differs from the provided version
C5_Witness ==
    /\ versionStatus = "match"
    /\ versionHash # providedVersionFromUrl(path)
    /\ AllSettled

\* C6: with no version in the URL the version status is unknown and the toast
\* is not shown, in every state; and the toast is shown only when a provided
\* version exists and the status is not unknown.
C6_NoVersionNoStatusNoToast ==
    /\ ~Truthy(providedVersionFromUrl(path)) =>
            (versionStatus = "unknown" /\ ~showVersionToast)
    /\ showVersionToast =>
            (Truthy(providedVersionFromUrl(path)) /\ versionStatus # "unknown")

\* no version in the URL, a stamp has been computed and every effect has run
C6_Witness ==
    /\ ~Truthy(providedVersionFromUrl(path))
    /\ Truthy(versionHash)
    /\ AllSettled

\* the path /v/{providedVersion} when load l had a version, / otherwise
PathWithoutEdition(l) ==
    IF loads[l].pv # NULL THEN <<47, 118, 47>> \o loads[l].pv ELSE <<47>>

\* C7 as stated: after a fallback success the edition state is null, the path
\* is /v/{providedVersion} when a version was supplied and / otherwise, and
\* parsing the rewritten path gives no edition and the version provided before.
C7_FallbackRewritesPath ==
    \A l \in LoadIds : FellBack(l) =>
        /\ edition = NULL
        /\ path = PathWithoutEdition(l)
        /\ initialEdition(path) = NULL
        /\ providedVersionFromUrl(path) = loads[l].pv

\* C7, amended: after a fallback success the edition state is null and the
\* path is /v/{providedVersion} when a version was supplied and / otherwise,
\* and then parses to no edition, unless replaceState threw: the exception is
\* swallowed and the path is the one the page was opened at, which still
\* parses to the edition; either way the path parses to the version provided
\* before, and the path changes in no other step and to no other value.
C7_FallbackRewritesPathUnlessRefused ==
    /\ [](\A l \in LoadIds : FellBack(l) =>
            /\ edition = NULL
            /\ providedVersionFromUrl(path) = loads[l].pv
            /\ \/ path = PathWithoutEdition(l) /\ initialEdition(path) = NULL
               \/ initialEdition(path) = loads[l].edition)
    /\ [][path' # path =>
            \E l \in LoadIds :
                /\ loads[l].pc = "fetch2"
                /\ FellBack(l)'
                /\ path' = PathWithoutEdition(l)]_vars

\* a fallback succeeded on a page opened with an edition and a version, and
\* the path has been rewritten to /v/{version}
C7_Witness ==
    \E l \in LoadIds :
        /\ FellBack(l)
        /\ loads[l].pv # NULL
        /\ loads[l].pc = "done"
        /\ path = <<47, 118, 47>> \o loads[l].pv

(***************************************************************************)
(* C8: the accumulator against the masked reference.                       *)
(***************************************************************************)
\* h mod 2^32 of a pair
Mask32(h) == <<h[1] % Half, h[2]>>

\* the reference step on an unsigned 32-bit pair: (h * 33 mod 2^32) XOR code
RefStep(h, code) ==
    LET lo == h[2] * 33
        m == Mask32(<<(h[1] * 33) + (lo \div Half), lo % Half>>)
    IN  Mask32(<<m[1], BitXor(m[2], code)>>)

\* the reference accumulator after the first n characters of json
RECURSIVE RefAcc(_, _)
RefAcc(json, n) ==
    IF n = 0 THEN <<0, 5381>>
    ELSE Bind(RefAcc(json, n - 1), LAMBDA h : RefStep(h, json[n]))

\* C8: after every iteration of the loop the accumulator of computeVersionHash,
\* read modulo 2^32, equals the reference accumulator (start 5381, then
\* h := ((h * 33) mod 2^32) XOR code, masked to 32 bits at every step) over
\* the characters consumed so far, and after the final >>> 0 the hash is
\* exactly the reference value as an unsigned 32-bit integer.
C8_AccumulatorIsMaskedDjb2 ==
    /\ hPc = "loop" => Mask32(hHash) = RefAcc(hJson, hI)
    /\ hPc \in {"format", "done"} => hHash = RefAcc(hJson, Len(hJson))

\* a run ended on a string long enough to wrap, with the top bit of the hash
\* set (the signed accumulator was negative before >>> 0)
C8_Witness ==
    /\ hPc = "done"
    /\ Len(hJson) >= 6
    /\ hHash[1] >= Half \div 2

(***************************************************************************)
(* C9: the stamp of an unsigned 32-bit hash.                               *)
(***************************************************************************)
IsStampChar(c) == (c >= 48 /\ c <= 57) \/ (c >= 65 /\ c <= 90)

\* the digit value of a stamp character
StampDigit(c) == IF c <= 57 THEN c - 48 ELSE c - 55

\* C9: the stamp is exactly 6 characters, each of 0-9 or A-Z, and read as a
\* base-36 numeral it is the hash modulo 36^6: hashes of 36^6 or more lose
\* their leading (seventh) base-36 digit.
C9_StampIsSixBase36Digits ==
    hPc = "done" =>
        /\ Len(hStamp) = StampLen
        /\ \A i \in 1..Len(hStamp) : IsStampChar(hStamp[i])
        /\ DigitsValue([i \in 1..Len(hStamp) |-> StampDigit(hStamp[i])], Len(hStamp))
             = (IF PairLess(hHash, StampModulus) THEN hHash
                ELSE PairSub(hHash, StampModulus))

\* a stamp was made of a hash of at least 36^6 whose low six digits are not
\* all zero
C9_Witness ==
    /\ hPc = "done"
    /\ ~PairLess(hHash, StampModulus)
    /\ Len(NumberToString(hHash)) = StampLen + 1
    /\ hStamp # <<48, 48, 48, 48, 48, 48>>

(***************************************************************************)
(* C10: paths that name an edition.                                        *)
(***************************************************************************)
\* the end of the segment of s that starts at p: the next '/' or the end
SegmentEnd(s, p) ==
    CHOOSE q \in p..(Len(s) + 1) :
        /\ q = Len(s) + 1 \/ s[q] = CharSlash
        /\ \A r \in p..(q - 1) : s[r] # CharSlash

\* s is /e/{E}... with E a non-empty segment; E, and what follows it
HasEditionForm(s) ==
    /\ Len(s) >= 4
    /\ SubSeq(s, 1, 3) = <<CharSlash, CharE, CharSlash>>
    /\ s[4] # CharSlash
EditionSegment(s) == SubSeq(s, 4, SegmentEnd(s, 4) - 1)
AfterEdition(s) == SubSeq(s, SegmentEnd(s, 4), Len(s))

\* s is exactly /e/{E}/v/{V} with V of 4 to 10 alphanumeric characters; V
HasEditionVersionForm(s) ==
    /\ HasEditionForm(s)
    /\ Len(AfterEdition(s)) \in (3 + MinVersionLen)..(3 + MaxVersionLen)
    /\ SubSeq(AfterEdition(s), 1, 3) = <<CharSlash, CharV, CharSlash>>
    /\ \A i \in 4..Len(AfterEdition(s)) : IsAlnum(AfterEdition(s)[i])
VersionSegment(s) == SubSeq(AfterEdition(s), 4, Len(AfterEdition(s)))

\* s is /e/{E} followed by nothing that starts a version: no /v/ and four
\* alphanumeric characters come right after E
HasEditionOnlyForm(s) ==
    /\ HasEditionForm(s)
    /\ ~(/\ Len(AfterEdition(s)) >= 3 + MinVersionLen
         /\ SubSeq(AfterEdition(s), 1, 3) = <<CharSlash, CharV, CharSlash>>
         /\ \A i \in 4..(3 + MinVersionLen) : IsAlnum(AfterEdition(s)[i]))

\* C10: once the path has been parsed, a path /e/{E}/v/{V} has given the
\* edition decodeURIComponent(E) and the provided version V, and a path
\* /e/{E} with no valid version segment has given the edition
\* decodeURIComponent(E) and a null version.
C10_EditionPathExtractsDecodedEdition ==
    (pPc # "start" /\ HasEditionForm(pPath)) =>
        /\ HasEditionVersionForm(pPath) =>
             /\ pPc = "done"
             /\ pEdition = decodeURIComponent(EditionSegment(pPath))
             /\ pEdition # URIError
             /\ pVersion = VersionSegment(pPath)
        /\ HasEditionOnlyForm(pPath) =>
             /\ pPc = "done"
             /\ pEdition = decodeURIComponent(EditionSegment(pPath))
             /\ pEdition # URIError
             /\ pVersion = NULL

(***************************************************************************)
(* C11, C12: paths that name no edition.                                   *)
(***************************************************************************)
\* somewhere in s the marker e/ stands at the start or after a '/', and a
\* non-empty segment follows it
EditionPatternOccurs(s) ==
    \E p \in 1..Len(s) :
        \/ p = 1 /\ LitAt(s, 1, <<CharE, CharSlash>>)
                 /\ Len(s) >= 3 /\ s[3] # CharSlash
        \/ LitAt(s, p, <<CharSlash, CharE, CharSlash>>)
                 /\ Len(s) >= p + 3 /\ s[p + 3] # CharSlash

\* somewhere in s the marker v/ stands at the start or after a '/', and at
\* least MinVersionLen alphanumeric characters follow it
VersionPatternOccurs(s) ==
    \E p \in 1..Len(s) :
        \/ p = 1 /\ LitAt(s, 1, <<CharV, CharSlash>>)
                 /\ Len(s) >= 2 + MinVersionLen
                 /\ \A i \in 3..(2 + MinVersionLen) : IsAlnum(s[i])
        \/ LitAt(s, p, <<CharSlash, CharV, CharSlash>>)
                 /\ Len(s) >= p + 2 + MinVersionLen
                 /\ \A i \in (p + 3)..(p + 2 + MinVersionLen) : IsAlnum(s[i])

\* the first segment of s is /v/{V} with V of 4 to 10 alphanumeric characters
\* filling the whole segment; V
HasRootVersionForm(s) ==
    /\ Len(s) >= 3 + MinVersionLen
    /\ SubSeq(s, 1, 3) = <<CharSlash, CharV, CharSlash>>
    /\ SegmentEnd(s, 4) - 4 \in MinVersionLen..MaxVersionLen
    /\ \A i \in 4..(SegmentEnd(s, 4) - 1) : IsAlnum(s[i])
RootVersionSegment(s) == SubSeq(s, 4, SegmentEnd(s, 4) - 1)

\* C11: once the path has been parsed, a path in which the edition pattern
\* does not occur and whose first segment is /v/{V}, V of 4 to 10
\* alphanumeric characters, has given a null edition and the provided
\* version V.
C11_RootVersionPathExtractsVersion ==
    (pPc # "start" /\ HasRootVersionForm(pPath) /\ ~EditionPatternOccurs(pPath)) =>
        /\ pPc = "done"
        /\ pEdition = NULL
        /\ pVersion = RootVersionSegment(pPath)

\* /v/{V}/x with a V longer than the shortest token has been parsed
C11_Witness ==
    /\ pPc = "done"
    /\ HasRootVersionForm(pPath)
    /\ ~EditionPatternOccurs(pPath)
    /\ Len(RootVersionSegment(pPath)) > MinVersionLen
    /\ Len(pPath) > SegmentEnd(pPath, 4)
    /\ pVersion = RootVersionSegment(pPath)

\* C12: once the path has been parsed, a path in which neither the edition
\* pattern nor the version pattern occurs has given a null edition and a
\* null provided version.
C12_NoPatternNoEditionNoVersion ==
    (pPc # "start" /\ ~EditionPatternOccurs(pPath) /\ ~VersionPatternOccurs(pPath)) =>
        /\ pPc = "done"
        /\ pEdition = NULL
        /\ pVersion = NULL

\* a path /v/{token} whose token is too short has been parsed
C12_Witness ==
    /\ pPc = "done"
    /\ ~EditionPatternOccurs(pPath)
    /\ ~VersionPatternOccurs(pPath)
    /\ LitAt(pPath, 1, <<CharSlash, CharV, CharSlash>>)
    /\ Len(pPath) > 3
    /\ IsAlnum(pPath[4])

(***************************************************************************)
(* C13: the share URL.                                                     *)
(***************************************************************************)
\* 'https://cv.hapangama.com', written out
CanonicalOrigin ==
    <<104, 116, 116, 112, 115, 58, 47, 47>> \o <<99, 118, 46>>
        \o <<104, 97, 112, 97, 110, 103, 97, 109, 97>> \o <<46, 99, 111, 109>>

\* C13: in every state, whatever the runtime origin, the share URL is the
\* canonical origin, then /e/{urlEncode(edition)} exactly when the edition
\* state is not null, then /v/{stamp} exactly when the stamp is known; the
\* encoded edition holds only unescaped characters and escapes and decodes
\* back to the edition; the version of the URL does not enter.
C13_ShareUrlIsCanonical ==
    \A ro \in RuntimeOrigins :
        /\ shareUrl(ro) =
              CanonicalOrigin
              \o (IF edition # NULL
                  THEN <<47, 101, 47>> \o encodeURIComponent(edition) ELSE <<>>)
              \o (IF versionHash # NULL THEN <<47, 118, 47>> \o versionHash ELSE <<>>)
        /\ edition # NULL =>
              /\ encodeURIComponent(edition) # URIError
              /\ \A i \in 1..Len(encodeURIComponent(edition)) :
                    \/ IsUnescaped(encodeURIComponent(edition)[i])
                    \/ encodeURIComponent(edition)[i] = CharPercent
              /\ decodeURIComponent(encodeURIComponent(edition)) = edition

\* an edition whose name needs escaping was served, the URL supplied a
\* version that is not the stamp, and the share URL carries the stamp
C13_Witness ==
    /\ edition # NULL
    /\ encodeURIComponent(edition) # edition
    /\ versionHash # NULL
    /\ Truthy(providedVersionFromUrl(path))
    /\ providedVersionFromUrl(path) # versionHash
    /\ AllSettled

(***************************************************************************)
(* C14, C15: the pagination of the bitmap.                                 *)
(***************************************************************************)
\* the bitmap of invocation i has arrived and its pages have been counted
Counted(i) == inv[i].imgWidthPx > 0

\* the loop of invocation i has added every page
Paged(i) == Counted(i) /\ Len(inv[i].pages) = inv[i].totalPages

\* h is a whole number of page heights 267 * w / 180
IsExactMultiple(w, h) ==
    (PRINTABLE_WIDTH_MM * h) % (printableHeightMm * w) = 0

\* the ceiling of h / (267 * w / 180), in whole numbers
ExactPages(w, h) ==
    ((PRINTABLE_WIDTH_MM * h) + (printableHeightMm * w) - 1)
        \div (printableHeightMm * w)

\* the floor of k * (267 * w / 180), in whole numbers
ExactTop(w, k) == (k * printableHeightMm * w) \div PRINTABLE_WIDTH_MM

BandRows(pg) == pg.sy..(pg.sy + NumCeil(pg.sHeight) - 1)

\* the rows of the bitmap drawn on the canvas of a page, canvasHeight rows
\* from sy on
DrawnRows(pg) == pg.sy..(pg.sy + pg.canvasHeight - 1)

\* C15: once every page has been added, the bands [sy, sy + sHeight) of the
\* pages are pairwise without a common row and together hold exactly the
\* rows 0..H-1 of the bitmap, whether or not pageHeightPx is a whole number.
C15_BandsPartitionTheBitmap ==
    \A i \in 1..Len(inv) :
        Paged(i) =>
            /\ \A p \in 1..Len(inv[i].pages) : \A q \in 1..Len(inv[i].pages) :
                  p < q => BandRows(inv[i].pages[p]) \cap BandRows(inv[i].pages[q]) = {}
            /\ UNION {BandRows(inv[i].pages[p]) : p \in 1..Len(inv[i].pages)}
                  = 0..(inv[i].imgHeightPx - 1)

(***************************************************************************)
(* C16-C20: the export.                                                    *)
(***************************************************************************)
\* invocation i is in its rasterize-and-assemble phase
InPhase(i) == inv[i].pc \in {"rasterizing", "paging"}

\* C16: the step that ends the rasterize-and-assemble phase of an
\* invocation, by the save of the file or by a caught exception, leaves no
\* clone and no temp-pdf-styles element attached to the page and the flag
\* isDownloading false; and they stay so while no invocation is in that
\* phase.
C16_NothingLeftAfterThePhase ==
    /\ \A i \in 1..Len(inv) :
          inv[i].pc = "done" <=> inv[i].outcome \in {"saved", "failed"}
    /\ (\A i \in 1..Len(inv) : ~InPhase(i)) =>
          /\ clones = {}
          /\ tempStyles = 0
          /\ ~isDownloading

\* the invocations that ended with the given outcome
Ended(outcome) == {i \in 1..Len(inv) : inv[i].outcome = outcome}

\* C17: an export in which the rasterization or a page step threw has been
\* caught and has alerted the user, one alert per export that threw, and has
\* not called the save: doc.save has been called once per ended export that
\* added every page of its bitmap without exception (whether the call
\* returned or threw) and never for another; and when no export is under way
\* the download button is on the page and enabled, so the export can be
\* triggered again.
C17_FailureAlertsAndNeverSaves ==
    /\ alerts = Cardinality(Ended("failed"))
    /\ saveCalls = Cardinality({i \in 1..Len(inv) : inv[i].pc = "done" /\ Paged(i)})
    /\ \A i \in Ended("saved") : Paged(i)
    /\ (\A i \in 1..Len(inv) : ~InPhase(i)) => DownloadEnabled

\* the invocations that have been triggered and have not run their cleanup
Active == {i \in 1..Len(inv) : inv[i].pc # "done"}

\* C18: from the trigger of an export to its cleanup the download button is
\* disabled, the wait for the profile image included, and no two
\* invocations of handleDownloadPdf are active at the same time.
C18_ExportsNeverOverlap ==
    /\ Active # {} => isDownloading
    /\ Cardinality(Active) <= 1

\* the profile image has not completed and has fired no load or error event
ImageUnsettled == img = "loading" /\ ~fallbackTried

\* invocation i goes past the wait for the image in this step
PassesTheWait(i) ==
    /\ inv'[i].pc # "waiting"
    /\ i > Len(inv) \/ inv[i].pc = "waiting"

\* the image fires its load or its error event in this step
ImageEvent == img' # img \/ fallbackTried' # fallbackTried

\* C19: an invocation goes past the wait (sets the flag, creates its clone,
\* calls html2canvas) only in a step in which the profile image is complete
\* already or fires its load or error event; and as long as the image has
\* neither completed nor fired an event, every invocation is still in the
\* wait, no clone and no style element exist and isDownloading is false.
C19_NoExportBeforeTheImageSettles ==
    /\ [](ImageUnsettled =>
            /\ \A i \in 1..Len(inv) : inv[i].pc = "waiting"
            /\ clones = {}
            /\ tempStyles = 0
            /\ ~isDownloading)
    /\ [][\A i \in 1..Len(inv') :
             PassesTheWait(i) => (img # "loading" \/ ImageEvent)]_vars

\* the first invocation waited, was resumed by the error event of the image
\* and has ended; the second waits for the image that loads again, the flag
\* false
C19_Witness ==
    /\ Len(inv) = 2
    /\ inv[1].pc = "done"
    /\ inv[2].pc = "waiting"
    /\ imgHandler = 2
    /\ img = "loading"
    /\ fallbackTried
    /\ ~isDownloading
    /\ clones = {}

\* the clone of an invocation in its phase: the live content with the
\* footer appended and the rewrites applied
CloneOf(page, c) ==
    [page EXCEPT !.footer = FooterText(c), !.hiddenSpans = "inline",
                 !.certificateUrls = "full", !.icons = FALSE]

\* the live content is as rendered and only the clones carry the changes
LiveUntouched ==
    /\ live = LiveContent
    /\ \A i \in 1..Len(inv) : InPhase(i) =>
          /\ i \in clones
          /\ inv[i].clone = CloneOf(LiveContent, inv[i])

\* C20 as stated: the export leaves the live #cv-content unchanged at every
\* step, the footer, the removals and the rewrites being made on the clone
\* only, and every rule of the injected style element is scoped to
\* #cv-pdf-clone.
C20_LiveUntouchedEveryRuleScoped ==
    /\ LiveUntouched
    /\ tempStyles > 0 => \A r \in TempStyleRules : r.scope = "#cv-pdf-clone"

\* C20, amended: the export leaves the live #cv-content unchanged at every
\* step, the footer, the removals and the rewrites being made on the clone
\* only, and every rule of the injected style element that has a selector
\* is scoped to #cv-pdf-clone; the one rule without a selector, the
\* @font-face rule of the family Inter, holds for the whole document.
C20_LiveUntouchedSelectorsScoped ==
    /\ LiveUntouched
    /\ tempStyles > 0 =>
          \A r \in TempStyleRules :
              /\ r.kind = "style" => r.scope = "#cv-pdf-clone"
              /\ r.kind # "style" => r.kind = "font-face" /\ r.scope = "document"

\* an export is paging its bitmap: its clone carries the footer and the
\* rewrites, the style element is attached, the live content is as rendered
C20_Witness ==
    /\ Len(inv) >= 1
    /\ inv[1].pc = "paging"
    /\ inv[1].clone.footer = FooterText(inv[1])
    /\ inv[1].clone.icons = FALSE
    /\ tempStyles = 1
    /\ live = LiveContent
    /\ live.footer = NoFooter
    /\ live.icons

\* ---------------------------------------------------------------------
\* C21: the load error

\* C21: once the load error is set it is never cleared, and in every state
\* where it is set the page renders only the error message and never the CV
\* document, even if a document has also been stored by another load.
C21_ErrorStaysAndHidesTheDocument ==
    /\ [](error # NoError => Rendered = "error")
    /\ [][error # NoError => error' = error]_vars

\* the load of the edition fell back and stored the default document, the
\* load started by the fallback failed: error and document are both set
C21_Witness ==
    /\ error = LoadErrorMessage
    /\ cvData # NoData
    /\ Len(loads) = 2
    /\ loads[1].pc = "done"
    /\ loads[2].pc = "caught"
    /\ Rendered = "error"

\* ---------------------------------------------------------------------
\* C22: the placement of the page images

\* the image of a page is at (15mm, 15mm), 180mm wide, and as high as its
\* slice divided by the pixels per millimetre of the bitmap of width w
PlacedAt(pg, w) ==
    /\ pg.x = 15
    /\ pg.y = 15
    /\ pg.width = 180
    /\ pg.renderHeightMm = NumDiv(pg.sHeight, NumDiv(NumOfInt(w), NumOfInt(180)))

MaxExports == 3

\* part_001 line 32
LiveShareUrl == "https://cv.hapangama.com"

\* part_001 lines 179-384: #cv-content as React renders it, no footer in it
LivePage == [footers |-> <<>>]

\* part_001 lines 107-122: the footer element with the link, and the QR code
\* drawn in it unless the QRCode constructor threw (qr is "drawn" or "none")
PrintFooter(qr) == [id |-> "print-footer", url |-> LiveShareUrl, qr |-> qr]

\* part_001 lines 87-127, from the end of the wait to the await of doc.html:
\* invocation i sets the flag, appends the style element to the head and the
\* footer to the live element, and starts the rendering
LiveBegin(i, invs, qr) ==
    /\ isDownloading' = SetState(TRUE, isDownloading)
    /\ tempStyles' = tempStyles + 1
    /\ live' = [live EXCEPT !.footers = Append(@, PrintFooter(qr))]
    /\ inv' = [invs EXCEPT ![i].pc = "rendering"]

\* part_001 lines 73-85 with img.complete: the click goes through the wait
LiveClickImageComplete(qr) ==
    /\ DownloadEnabled
    /\ Len(inv) < MaxExports
    /\ img # "loading"
    /\ LiveBegin(Len(inv) + 1, Append(inv, NewInvocation), qr)
    /\ UNCHANGED <<img, fallbackTried, imgHandler, clones, saveCalls, alerts,
                   pageVars, hashVars, parseVars,
                   shareVars>>

\* part_001 lines 73-85 with the image still loading: the click installs the
\* handlers of this invocation on the image and waits
LiveClickImageLoading ==
    /\ DownloadEnabled
    /\ Len(inv) < MaxExports
    /\ img = "loading"
    /\ inv' = Append(inv, NewInvocation)
    /\ imgHandler' = Len(inv) + 1
    /\ UNCHANGED <<isDownloading, img, fallbackTried, live, clones, tempStyles,
                   saveCalls, alerts, pageVars, hashVars, parseVars,
                   shareVars>>

\* part_001 lines 82-83: the load or error event runs the handler the image
\* holds; the invocation it resolves, if that one still waits, goes on
LiveImageHandlerRuns(qr) ==
    IF imgHandler # 0 /\ inv[imgHandler].pc = "waiting"
    THEN LiveBegin(imgHandler, inv, qr)
    ELSE UNCHANGED <<isDownloading, live, inv, tempStyles>>

\* part_001 lines 183-189: the image finishes loading
LiveImageLoads(qr) ==
    /\ img = "loading"
    /\ img' = "loaded"
    /\ LiveImageHandlerRuns(qr)
    /\ UNCHANGED <<fallbackTried, imgHandler, clones, saveCalls, alerts,
                   pageVars, hashVars, parseVars,
                   shareVars>>

\* part_001 lines 183-189: the image fails to load and stays broken (the
\* element has no error handler of its own)
LiveImageFails(qr) ==
    /\ img = "loading"
    /\ img' = "broken"
    /\ LiveImageHandlerRuns(qr)
    /\ UNCHANGED <<fallbackTried, imgHandler, clones, saveCalls, alerts,
                   pageVars, hashVars, parseVars,
                   shareVars>>

\* part_001 lines 136-142, the finally block: the first element with the id
\* temp-pdf-styles and the first with the id print-footer are removed, if
\* there is one, and the flag is cleared. getElementById finds the footer
\* while #cv-content is in the document, that is while the document is
\* rendered
LiveCleanup(i, outcome, invs) ==
    /\ tempStyles' = IF tempStyles > 0 THEN tempStyles - 1 ELSE tempStyles
    /\ live' = [live EXCEPT !.footers = IF @ = <<>> \/ Rendered # "document"
                                        THEN @ ELSE Tail(@)]
    /\ isDownloading' = SetState(FALSE, isDownloading)
    /\ inv' = [invs EXCEPT ![i].pc = "done", ![i].outcome = outcome]

\* part_001 lines 124-132, 136-142: doc.html resolves, its callback having
\* saved the document; the finally block follows
LiveHtmlResolves(i) ==
    /\ inv[i].pc = "rendering"
    /\ saveCalls' = saveCalls + 1
    /\ LiveCleanup(i, "saved", inv)
    /\ UNCHANGED <<img, fallbackTried, imgHandler, clones, alerts,
                   pageVars, hashVars, parseVars,
                   shareVars>>

\* part_001 lines 127-142: doc.save throws in the callback of line 128 and
\* doc.html passes the exception on as the rejection of the awaited promise
\* (a doc.html that drops it gives the step LiveHtmlResolves); the catch
\* block alerts and the finally block follows
LiveSaveThrows(i) ==
    /\ inv[i].pc = "rendering"
    /\ saveCalls' = saveCalls + 1
    /\ alerts' = alerts + 1
    /\ LiveCleanup(i, "failed", inv)
    /\ UNCHANGED <<img, fallbackTried, imgHandler, clones,
                   pageVars, hashVars, parseVars,
                   shareVars>>

\* part_001 lines 124-142: jspdf, the jsPDF constructor or doc.html throws
\* or rejects; the catch block alerts and the finally block follows
LiveHtmlRejects(i) ==
    /\ inv[i].pc = "rendering"
    /\ alerts' = alerts + 1
    /\ LiveCleanup(i, "failed", inv)
    /\ UNCHANGED <<img, fallbackTried, imgHandler, clones, saveCalls,
                   pageVars, hashVars, parseVars,
                   shareVars>>

\* part_001 line 376: the click on the share button toggles the box
LiveShareButtonClick ==
    /\ Rendered = "document"
    /\ ~NeedsCommit
    /\ isShareBoxVisible' = ~isShareBoxVisible
    /\ UNCHANGED <<sharePending, qrCodeInstance, previousQrUrl, mounted,
                   pageVars, hashVars, parseVars, exportVars>>

\* part_001 lines 51-62: the render after a change of isShareBoxVisible
\* (shareUrl, the other dependency, is the constant of line 32) and its QR
\* effect. qr is the outcome of the QRCode constructor of line 53 when the
\* effect gets to it; the constructor is called outside any try block, and
\* the exception it throws leaves the effect: React, which App gives no
\* error boundary, unmounts the tree
LiveCommit(qr) ==
    /\ mounted
    /\ deps.qr[1] # isShareBoxVisible
    /\ IF isShareBoxVisible /\ Rendered = "document" /\ ~qrCodeInstance
       THEN /\ mounted' = (qr = "drawn")
            /\ qrCodeInstance' = (qr = "drawn")
       ELSE /\ qr = "drawn"
            /\ UNCHANGED <<mounted, qrCodeInstance>>
    /\ deps' = [deps EXCEPT !.qr[1] = isShareBoxVisible]
    /\ UNCHANGED <<path, edition, versionHash, versionStatus, cvData, error,
                   showVersionToast, toastTimer, loads, fetches,
                   isShareBoxVisible, sharePending, previousQrUrl, hashVars,
                   parseVars,
                   exportVars>>

\* the page of part_001 with the document rendered, the image loading or
\* complete, no export started
InitLive ==
    /\ ShareAtRest
    /\ HashAtRest
    /\ ParseAtRest
    /\ PageShowsDocument
    /\ isDownloading = FALSE
    /\ img \in {"loading", "loaded", "broken"}
    /\ fallbackTried = FALSE
    /\ imgHandler = 0
    /\ inv = <<>>
    /\ live = LivePage
    /\ clones = {}
    /\ tempStyles = 0
    /\ saveCalls = 0
    /\ alerts = 0

NextLive ==
    \/ \E qr \in QrOutcomes : LiveClickImageComplete(qr)
    \/ LiveClickImageLoading
    \/ \E qr \in QrOutcomes : LiveImageLoads(qr)
    \/ \E qr \in QrOutcomes : LiveImageFails(qr)
    \/ \E i \in 1..Len(inv) : LiveHtmlResolves(i)
    \/ \E i \in 1..Len(inv) : LiveHtmlRejects(i)
    \/ \E i \in 1..Len(inv) : LiveSaveThrows(i)
    \/ HoverShare
    \/ LeaveShare
    \/ LiveShareButtonClick
    \/ \E qr \in QrOutcomes : LiveCommit(qr)

SpecLive == InitLive /\ [][NextLive]_vars

\* ---------------------------------------------------------------------
\* C23: the cleanup of the export of the live element

\* nothing of an export is left and the flag is cleared
LiveClean == live.footers = <<>> /\ tempStyles = 0 /\ ~isDownloading

\* invocation i ends in this step
LiveEnds(i) == inv[i].pc = "rendering" /\ inv'[i].pc = "done"

C24_StatusAgreesWithCurrentStamp ==
    /\ versionStatus = "match" => providedVersionFromUrl(path) = versionHash
    /\ versionStatus = "mismatch" => providedVersionFromUrl(path) # versionHash

\* ---------------------------------------------------------------------
\* C25: the failures of the edition fetch that do not fall back

\* the edition fetch of load l rejected, or resolved with success and its
\* body failed to parse: l was caught on a rejection with its url still the
\* edition's file
EditionFetchFailed(l) ==
    /\ Truthy(loads[l].edition)
    /\ loads[l].pc = "caught"
    /\ loads[l].url = fileForEdition(loads[l].edition)
    /\ loads[l].e \in {"fetch rejected", "json rejected"}

\* load l issues its fallback fetch in this step
FallbackIssued(l) ==
    /\ loads[l].pc = "fetch1"
    /\ loads'[l].pc = "fetch2"
    /\ fetches' = Append(fetches, DefaultFile)

\* C25: the edition fallback is attempted only when the edition fetch
\* resolves with a non-success status; if the edition fetch rejects, or
\* resolves with success but its body fails to parse as JSON, the load error
\* is set, no fetch of the default resource is issued, and the edition state
\* stays set.
C25_NoFallbackOnRejection ==
    /\ [](\A l \in LoadIds : EditionFetchFailed(l) =>
              /\ error = LoadErrorMessage
              /\ \A k \in 1..Len(fetches) : fetches[k] # DefaultFile
              /\ edition = loads[l].edition)
    /\ [][\A l \in LoadIds : FallbackIssued(l) =>
              Truthy(loads[l].edition) /\ loads'[l].ok = "notok"]_vars
    /\ [][(\E l \in LoadIds : EditionFetchFailed(l)) => fetches' = fetches]_vars

\* the edition fetch rejected: the error is set, the one fetch issued is the
\* edition's, the edition is still set and nothing is left to happen
C25_Witness ==
    /\ AllSettled
    /\ Len(loads) = 1
    /\ EditionFetchFailed(1)
    /\ loads[1].e = "fetch rejected"
    /\ fetches = <<fileForEdition(edition)>>
    /\ Truthy(edition)
    /\ error = LoadErrorMessage

\* ---------------------------------------------------------------------
\* C26: the trigger fired again during the wait for the image

\* the invocations in the wait for the image
Waiting == {i \in 1..Len(inv) : inv[i].pc = "waiting"}

\* invocation i waits and a later invocation has been triggered since
Superseded(i) == i \in Waiting /\ i < Len(inv)

\* C26: when the trigger fires again while an earlier invocation still waits
\* for the profile image, the later invocation replaces the handlers of the
\* image (no invocation later than the one whose handlers the image holds
\* is in the wait), so
\* when the image settles only the latest invocation goes on to clone and
\* rasterize; every earlier waiting invocation stays in the wait for ever and
\* never sets the flag.
C26_OnlyTheLatestWaiterResumes ==
    /\ [](\A i \in Waiting : i <= imgHandler /\ imgHandler <= Len(inv))
    /\ [][(Len(inv') > Len(inv) /\ Waiting # {} /\ img = "loading") =>
              (imgHandler' = Len(inv') /\ Len(inv') \in Waiting')]_vars
    /\ [][\A i \in 1..Len(inv) :
              Superseded(i) => (inv'[i] = inv[i] /\ i \in Waiting')]_vars
    /\ [][\A i \in 1..Len(inv) :
              PassesTheWait(i) => (i = Len(inv) /\ ImageEvent)]_vars
    /\ [][(~isDownloading /\ isDownloading') =>
              \E i \in 1..Len(inv') : PassesTheWait(i) /\ ~Superseded(i)]_vars

\* two invocations waited for the image; the image has loaded, the later
\* invocation has saved its file and the earlier is still in the wait
C26_Witness ==
    /\ Len(inv) = 2
    /\ inv[1].pc = "waiting"
    /\ inv[2].pc = "done"
    /\ inv[2].outcome = "saved"
    /\ imgHandler = 2
    /\ img = "loaded"
    /\ ~isDownloading

\* ---------------------------------------------------------------------
\* C27: the version token and what follows it

\* the number of alphanumeric characters s has from index q on, unbroken
AlnumPrefixLen(s, q) ==
    CHOOSE n \in 0..(Len(s) - q + 1) :
        /\ \A i \in q..(q + n - 1) : IsAlnum(s[i])
        /\ q + n > Len(s) \/ ~IsAlnum(s[q + n])

\* the alphanumerics s has from index q on, cut after the tenth
CutToken(s, q) ==
    SubSeq(s, q, q + (IF AlnumPrefixLen(s, q) > 10 THEN 10 ELSE AlnumPrefixLen(s, q)) - 1)

\* the indices of s that follow a version marker: v/ at the start, or /v/
MarkerEnds(s) ==
    {q \in 3..(Len(s) + 1) :
        \/ q = 3 /\ LitAt(s, 1, <<CharV, CharSlash>>)
        \/ q >= 4 /\ LitAt(s, q - 3, <<CharSlash, CharV, CharSlash>>)}

\* v is 4 to 10 alphanumeric characters
IsVersionToken(v) ==
    /\ Len(v) \in 4..10
    /\ \A i \in 1..Len(v) : IsAlnum(v[i])

\* an extracted version is 4 to 10 alphanumerics: the run that follows a
\* version marker of the path, cut after the tenth
ExtractedIsCutToken ==
    pVersion # NULL =>
        /\ IsVersionToken(pVersion)
        /\ \E q \in MarkerEnds(pPath) : pVersion = CutToken(pPath, q)

\* s starts with the marker /v/ and at least 4 alphanumerics follow it
RootMarked(s) ==
    /\ LitAt(s, 1, <<CharSlash, CharV, CharSlash>>)
    /\ AlnumPrefixLen(s, 4) >= 4

\* C27 as stated: any provided version the resolver extracts is 4 to 10
\* alphanumeric characters; it need not be the whole segment after the
\* version marker: of a segment that starts with more than 10 alphanumerics
\* the first 10 are extracted, and whatever text follows the token, the
\* version is not absent.
C27_TokenWhateverFollows ==
    pPc # "start" =>
        /\ ExtractedIsCutToken
        /\ RootMarked(pPath) => pVersion = CutToken(pPath, 4)

\* C27, amended: any provided version the resolver extracts is 4 to 10
\* alphanumeric characters, the run after a version marker cut after the
\* tenth; where the edition pattern occurs nowhere in the path, of a segment
\* after the marker /v/ that starts with more than 10 alphanumerics the
\* first 10 are extracted and the text that follows the token is ignored;
\* text after the token in which the edition pattern occurs is not ignored:
\* with no second version marker in the path the version is then null.
C27_TokenUnlessAnEditionFollows ==
    pPc # "start" =>
        /\ ExtractedIsCutToken
        /\ (RootMarked(pPath) /\ ~EditionPatternOccurs(pPath)) =>
              (pPc = "done" /\ pVersion = CutToken(pPath, 4))
        /\ (RootMarked(pPath) /\ EditionPatternOccurs(pPath)
                /\ MarkerEnds(pPath) = {4}) => pVersion = NULL

\* /v/ and a segment of 11 alphanumerics and more, with text after it, has
\* been parsed: the version is the first 10 characters of the segment
C27_Witness ==
    /\ pPc = "done"
    /\ RootMarked(pPath)
    /\ ~EditionPatternOccurs(pPath)
    /\ AlnumPrefixLen(pPath, 4) > 10
    /\ Len(pPath) > 3 + AlnumPrefixLen(pPath, 4)
    /\ pVersion = SubSeq(pPath, 4, 13)

====
